---------------------------- MODULE Spec2Model ----------------------------
(***************************************************************************)
(* A model of the parsix parser toolkit: the grammar analysis of a        *)
(* production vector (FIRST and FOLLOW), the table driven LR driver with  *)
(* its panic mode recovery, and the table driven LL driver.               *)
(*                                                                         *)
(* Three specifications share the variables below:                        *)
(*   SpecLR  - LRParser::parse over LR tables and token sequences          *)
(*   SpecLL  - LLParser::parse over LL tables and token sequences          *)
(*   SpecPV  - operations on a ProductionVector                            *)
(***************************************************************************)
EXTENDS Integers, Sequences, FiniteSets, TLC

(***************************************************************************)
(* Enumerators of the grammar used by the drivers: _TERMINAL and          *)
(* _NON_TERMINAL.  The non-terminals continue the numbering of the        *)
(* terminals.                                                              *)
(***************************************************************************)
T_ID == 0
T_INT == 1
T_PLUS == 2
T_STAR == 3
T_LEFT_PAREN == 4
T_RIGHT_PAREN == 5
T_EOF == 6
T_EPSILON == 7
T_COUNT == 8
NT_E == 8
NT_EP == 9
NT_T == 10
NT_TP == 11
NT_F == 12
NT_COUNT == 13

ERR_RECOVERY_LIMIT == 5

\* Bounds of the model.
MaxTokens == 3
MaxParses == 2
MaxProds == 3

NonTerminals == NT_E .. (NT_COUNT - 1)

\* GrammaticalSymbol: a symbol is its enumerator; the terminals are the
\* enumerators below T_COUNT.
IsTerminal(symbol) == symbol < T_COUNT

\* GrammaticalSymbol::EPSILON and GrammaticalSymbol::END_MARKER
EPSILON == T_EPSILON
END_MARKER == T_EOF

(***************************************************************************)
(* Production elements.  A body element is a grammar symbol, a            *)
(* synthesized record or an action record.                                 *)
(***************************************************************************)
GS(symbol) == [type |-> "PET_GRAM_SYMBOL", gramSymbol |-> symbol]
SynRecord == [type |-> "PET_SYNTH_RECORD", gramSymbol |-> -1]
\* StackElementType{}: a value-initialized element
DefaultElement == [type |-> "PET_GRAM_SYMBOL", gramSymbol |-> -1]
ActRecord == [type |-> "PET_ACTION_RECORD", gramSymbol |-> -1]

Prod(head, body) == [prodHead |-> head, prodBody |-> body]


(***************************************************************************)
(* ProductionVector::calculateFIRST.  FIRST is a vector indexed by the    *)
(* enumerator of a non-terminal; every entry is a set of terminals.       *)
(* The std::set is iterated in the order of operator<, which for          *)
(* terminals is the order of their enumerators.                           *)
(***************************************************************************)
Resize(vec, n) == [i \in 0 .. (n - 1) |-> IF i \in DOMAIN vec THEN vec[i] ELSE {}]

\* The result of one call: the FIRST vector, whether a terminal was added,
\* and the returned flag (continue with the next symbol of the body).
AugmentFIRST(F, added, prod, symbol, index) ==
  LET head == prod.prodHead
      fsetH == F[head]
      containsEpsilonH == EPSILON \in fsetH
  IN IF ~IsTerminal(symbol)
     THEN LET fsetN == F[symbol]
              containsEpsilonN == EPSILON \in fsetN
          IN IF symbol = head
             THEN [F |-> F, added |-> added, cont |-> containsEpsilonN]
             ELSE IF fsetN = {}
             THEN [F |-> F, added |-> added, cont |-> FALSE]
             ELSE IF EPSILON \in fsetN
             THEN \* the loop over fsetN returns true when it meets EPSILON
                  LET before == {t \in fsetN : t < EPSILON}
                  IN [F |-> [F EXCEPT ![head] = @ \cup before],
                      added |-> added \/ ~(before \subseteq fsetH),
                      cont |-> TRUE]
             ELSE \* the loop ran to its end
                  LET F1 == [F EXCEPT ![head] = @ \cup fsetN]
                      added1 == added \/ ~(fsetN \subseteq fsetH)
                      atEnd == index = Len(prod.prodBody)
                  IN IF containsEpsilonN /\ atEnd /\ ~containsEpsilonH
                     THEN [F |-> [F1 EXCEPT ![head] = @ \cup {EPSILON}],
                           added |-> added1 \/ EPSILON \notin F1[head],
                           cont |-> FALSE]
                     ELSE [F |-> F1, added |-> added1, cont |-> FALSE]
     ELSE [F |-> [F EXCEPT ![head] = @ \cup {symbol}],
           added |-> added \/ symbol \notin fsetH,
           cont |-> FALSE]

\* The loop over the elements of one production body, from position i on;
\* index counts the grammar symbols met so far, starting at 1.
RECURSIVE FirstOverBody(_, _, _, _, _)
FirstOverBody(F, added, prod, i, index) ==
  IF i > Len(prod.prodBody)
  THEN [F |-> F, added |-> added]
  ELSE LET stackElement == prod.prodBody[i]
       IN IF stackElement.type # "PET_GRAM_SYMBOL"
          THEN FirstOverBody(F, added, prod, i + 1, index)
          ELSE LET r == AugmentFIRST(F, added, prod, stackElement.gramSymbol, index)
               IN IF r.cont
                  THEN FirstOverBody(r.F, r.added, prod, i + 1, index + 1)
                  ELSE [F |-> r.F, added |-> r.added]

\* One round of the while loop: every production in order.
RECURSIVE FirstRound(_, _, _, _)
FirstRound(F, added, prods, p) ==
  IF p > Len(prods)
  THEN [F |-> F, added |-> added]
  ELSE LET r == FirstOverBody(F, added, prods[p], 1, 1)
       IN FirstRound(r.F, r.added, prods, p + 1)

RECURSIVE FirstFixpoint(_, _)
FirstFixpoint(F, prods) ==
  LET r == FirstRound(F, FALSE, prods, 1)
  IN IF r.added THEN FirstFixpoint(r.F, prods) ELSE r.F

\* The FIRST vector calculateFIRST leaves, when it does not return early.
CalcFIRST(oldFIRST, prods) == FirstFixpoint(Resize(oldFIRST, NT_COUNT), prods)

(***************************************************************************)
(* ProductionVector::calculateFOLLOW.                                      *)
(***************************************************************************)
\* cpyToFollow applied to every element of a set
CpyAdded(target, src) == \E s \in src : s \notin target /\ s # EPSILON

\* The step of that loop at a non-terminal with the erase of EPSILON left
\* out: what is copied from FIRST stays in the set.
FollowOverRestKeepingEpsilon(cur, added, F, otherHeadFollow, sameSet, production, varIndex) ==
  LET element == production.prodBody[varIndex + 1]
      copied == IF element.type # "PET_GRAM_SYMBOL" THEN {}
                ELSE IF element.gramSymbol \in DOMAIN F /\ ~IsTerminal(element.gramSymbol)
                THEN F[element.gramSymbol]
                ELSE {element.gramSymbol}
  IN [set |-> cur \cup copied, added |-> CpyAdded(cur, copied), thrown |-> FALSE]

\* The for loop of _augment_FOLLOW_of_nonTerminal from position varIndex
\* (0-based, as in the source); cur is FOLLOW(nonTerminal) so far.  headFollow
\* is a reference to FOLLOW(head): when the head is nonTerminal itself it is
\* the set being built.  thrown: FIRST.at(symIndex) threw std::out_of_range.
RECURSIVE FollowOverRest(_, _, _, _, _, _, _)
FollowOverRest(cur, added, F, otherHeadFollow, sameSet, production, varIndex) ==
  LET prodBdySz == Len(production.prodBody)
  IN IF varIndex >= prodBdySz
     THEN [set |-> cur, added |-> added, thrown |-> FALSE]
     ELSE LET element == production.prodBody[varIndex + 1]
              atEnd == varIndex + 1 = prodBdySz
          IN IF element.type # "PET_GRAM_SYMBOL"
             THEN IF ~atEnd
                  THEN FollowOverRest(cur, added, F, otherHeadFollow, sameSet,
                                      production, varIndex + 1)
                  ELSE LET headFollow == IF sameSet THEN cur ELSE otherHeadFollow
                       IN [set |-> cur \cup headFollow,
                           added |-> added \/ CpyAdded(cur, headFollow),
                           thrown |-> FALSE]
             ELSE IF IsTerminal(element.gramSymbol)
             THEN [set |-> cur \cup {element.gramSymbol},
                   added |-> element.gramSymbol \notin cur,
                   thrown |-> FALSE]
             ELSE IF element.gramSymbol \notin DOMAIN F
             THEN [set |-> cur, added |-> added, thrown |-> TRUE]
             ELSE LET symbolFrst == F[element.gramSymbol]
                      cur1 == cur \cup symbolFrst
                      added1 == added \/ CpyAdded(cur, symbolFrst)
                      containsEpsilon == EPSILON \in cur1
                      cur2 == cur1 \ {EPSILON}
                      headFollow == IF sameSet THEN cur2 ELSE otherHeadFollow
                  IN IF ~containsEpsilon
                     THEN [set |-> cur2, added |-> added1, thrown |-> FALSE]
                     ELSE IF ~atEnd
                     THEN FollowOverRest(cur2, added1, F, otherHeadFollow, sameSet,
                                         production, varIndex + 1)
                     ELSE [set |-> cur2 \cup headFollow,
                           added |-> added1 \/ CpyAdded(cur2, headFollow),
                           thrown |-> FALSE]

\* _augment_FOLLOW_of_nonTerminal: the new FOLLOW vector, the returned flag,
\* and whether it threw.
AugmentFOLLOW(FO, F, prods, nonTerminal, prodIndex, variableIndex) ==
  LET production == prods[prodIndex + 1]
      prodBdySz == Len(production.prodBody)
      headFollow == FO[production.prodHead]
      currSymFollow == FO[nonTerminal]
      lastSymbol == variableIndex = prodBdySz - 1
      r == IF lastSymbol
           THEN [set |-> currSymFollow \cup headFollow,
                 added |-> CpyAdded(currSymFollow, headFollow),
                 thrown |-> FALSE]
           ELSE FollowOverRest(currSymFollow, FALSE, F, headFollow,
                               production.prodHead = nonTerminal, production,
                               variableIndex + 1)
  IN [FO |-> [FO EXCEPT ![nonTerminal] = r.set], added |-> r.added,
      thrown |-> r.thrown]

RECURSIVE FollowOverBody(_, _, _, _, _, _)
FollowOverBody(FO, added, F, prods, prodIndex, symIndex) ==
  LET prod == prods[prodIndex + 1]
  IN IF symIndex >= Len(prod.prodBody)
     THEN [FO |-> FO, added |-> added, thrown |-> FALSE]
     ELSE LET stackElement == prod.prodBody[symIndex + 1]
          IN IF stackElement.type # "PET_GRAM_SYMBOL" \/ IsTerminal(stackElement.gramSymbol)
             THEN FollowOverBody(FO, added, F, prods, prodIndex, symIndex + 1)
             ELSE LET r == AugmentFOLLOW(FO, F, prods, stackElement.gramSymbol,
                                         prodIndex, symIndex)
                  IN IF r.thrown
                     THEN [FO |-> r.FO, added |-> added, thrown |-> TRUE]
                     ELSE FollowOverBody(r.FO, added \/ r.added, F, prods, prodIndex,
                                         symIndex + 1)

RECURSIVE FollowRound(_, _, _, _, _)
FollowRound(FO, added, F, prods, prodIndex) ==
  IF prodIndex >= Len(prods)
  THEN [FO |-> FO, added |-> added, thrown |-> FALSE]
  ELSE LET r == FollowOverBody(FO, added, F, prods, prodIndex, 0)
       IN IF r.thrown
          THEN r
          ELSE FollowRound(r.FO, r.added, F, prods, prodIndex + 1)

\* The while loop, begun at the vectors of seen and now at FO: the FOLLOW
\* vector it leaves, whether it was left by the exception, and whether it is
\* never left (a round that reports an addition and ends at a vector from
\* which a round was begun before).
RECURSIVE FollowRounds(_, _, _, _)
FollowRounds(FO, F, prods, seen) ==
  LET r == FollowRound(FO, FALSE, F, prods, 0)
  IN IF r.thrown THEN [FO |-> r.FO, thrown |-> TRUE, endless |-> FALSE]
     ELSE IF ~r.added THEN [FO |-> r.FO, thrown |-> FALSE, endless |-> FALSE]
     ELSE IF r.FO \in seen \cup {FO}
     THEN [FO |-> r.FO, thrown |-> FALSE, endless |-> TRUE]
     ELSE FollowRounds(r.FO, F, prods, seen \cup {FO})

FollowFixpoint(FO, F, prods) == FollowRounds(FO, F, prods, {})

\* calculateFOLLOW from FOLLOW.resize on, for a non-empty production vector
\* whose FIRST vector is F.
FollowFrom(oldFOLLOW, F, prods) ==
  LET FO0 == Resize(oldFOLLOW, NT_COUNT)
      startHeadIndex == prods[1].prodHead
  IN FollowFixpoint([FO0 EXCEPT ![startHeadIndex] = @ \cup {END_MARKER}], F, prods)

\* The FOLLOW vector calculateFOLLOW leaves for a non-empty production
\* vector whose FIRST is F.
CalcFOLLOW(oldFOLLOW, F, prods) == FollowFrom(oldFOLLOW, F, prods).FO


(***************************************************************************)
(* The grammars of the drivers.                                            *)
(***************************************************************************)
\* grammar_expression_LR: E' -> E, E -> E + T | T, T -> T * F | F,
\* F -> ( E ) | id.  Production k of the vector is element k + 1 here.
GrammarExpressionLR ==
  << Prod(NT_EP, <<GS(NT_E)>>),
     Prod(NT_E, <<GS(NT_E), GS(T_PLUS), GS(NT_T)>>),
     Prod(NT_E, <<GS(NT_T)>>),
     Prod(NT_T, <<GS(NT_T), GS(T_STAR), GS(NT_F)>>),
     Prod(NT_T, <<GS(NT_F)>>),
     Prod(NT_F, <<GS(T_LEFT_PAREN), GS(NT_E), GS(T_RIGHT_PAREN)>>),
     Prod(NT_F, <<GS(T_ID)>>) >>

\* A second client grammar: E' -> E, E -> id T, T -> +
GrammarSparseLR ==
  << Prod(NT_EP, <<GS(NT_E)>>),
     Prod(NT_E, <<GS(T_ID), GS(NT_T)>>),
     Prod(NT_T, <<GS(T_PLUS)>>) >>

\* A third client grammar, in which FOLLOW(T) does not hold the end marker:
\* E' -> E, E -> ( T ), T -> id
GrammarNestedLR ==
  << Prod(NT_EP, <<GS(NT_E)>>),
     Prod(NT_E, <<GS(T_LEFT_PAREN), GS(NT_T), GS(T_RIGHT_PAREN)>>),
     Prod(NT_T, <<GS(T_ID)>>) >>

(***************************************************************************)
(* LR parsing tables.  An entry is LRTableEntry {isEmpty, type, number};   *)
(* a default constructed entry is empty and of type TET_ERROR.             *)
(***************************************************************************)
EmptyEntry == [isEmpty |-> TRUE, type |-> "TET_ERROR", number |-> -1]

TE_SHIFT(state) == [isEmpty |-> FALSE, type |-> "TET_ACTION_SHIFT", number |-> state]
TE_REDUCE(prodNum) == [isEmpty |-> FALSE, type |-> "TET_ACTION_REDUCE", number |-> prodNum]
TE_GOTO(state) == [isEmpty |-> FALSE, type |-> "TET_GOTO", number |-> state]
TE_ACCEPT == [isEmpty |-> FALSE, type |-> "TET_ACCEPT", number |-> -1]

\* LRTableEntry::isError
IsError(entry) == entry.isEmpty \/ entry.type = "TET_ERROR"

\* The rows define_table_lrparser reserves in both tables.
ReservedRows == 50

\* The shift and accept entries of define_table_lrparser: <<state, terminal, entry>>
FixtureShifts ==
  { <<0, T_ID, TE_SHIFT(5)>>, <<0, T_LEFT_PAREN, TE_SHIFT(4)>>,
    <<1, T_PLUS, TE_SHIFT(6)>>, <<1, T_EOF, TE_ACCEPT>>,
    <<2, T_STAR, TE_SHIFT(7)>>,
    <<4, T_ID, TE_SHIFT(5)>>, <<4, T_LEFT_PAREN, TE_SHIFT(4)>>,
    <<6, T_ID, TE_SHIFT(5)>>, <<6, T_LEFT_PAREN, TE_SHIFT(4)>>,
    <<7, T_ID, TE_SHIFT(5)>>, <<7, T_LEFT_PAREN, TE_SHIFT(4)>>,
    <<8, T_PLUS, TE_SHIFT(6)>>, <<8, T_RIGHT_PAREN, TE_SHIFT(11)>>,
    <<9, T_STAR, TE_SHIFT(7)>> }

\* The reduce entries of define_table_lrparser, <<state, terminal, r>>, where
\* r is the production the entry's comment names ("table[2][+] = r2").
FixtureReduces ==
  { <<2, T_PLUS, 2>>, <<2, T_RIGHT_PAREN, 2>>, <<2, T_EOF, 2>>,
    <<9, T_PLUS, 1>>, <<9, T_RIGHT_PAREN, 1>>, <<9, T_EOF, 1>> }
  \cup { <<3, t, 4>> : t \in {T_PLUS, T_STAR, T_RIGHT_PAREN, T_EOF} }
  \cup { <<5, t, 6>> : t \in {T_PLUS, T_STAR, T_RIGHT_PAREN, T_EOF} }
  \cup { <<10, t, 3>> : t \in {T_PLUS, T_STAR, T_RIGHT_PAREN, T_EOF} }
  \cup { <<11, t, 5>> : t \in {T_PLUS, T_STAR, T_RIGHT_PAREN, T_EOF} }

\* The argument the fixture passes to TE_REDUCE for the entry commented r:
\* it writes TE_REDUCE(r - 1) everywhere but in table[9][+], where it
\* writes TE_REDUCE(1).
FixtureReduceArg(state, terminal, r) ==
  IF state = 9 /\ terminal = T_PLUS THEN 1 ELSE r - 1

\* The goto entries of define_table_lrparser: <<state, non-terminal, entry>>
FixtureGotos ==
  { <<0, NT_E, TE_GOTO(1)>>, <<0, NT_T, TE_GOTO(2)>>, <<0, NT_F, TE_GOTO(3)>>,
    <<4, NT_E, TE_GOTO(8)>>, <<4, NT_T, TE_GOTO(2)>>, <<4, NT_F, TE_GOTO(3)>>,
    <<6, NT_T, TE_GOTO(9)>>, <<6, NT_F, TE_GOTO(3)>>,
    <<7, NT_F, TE_GOTO(10)>> }

\* A client table for GrammarSparseLR, filled entry by entry through
\* atAction and atGoto without reserveRows; the entry goto[1][T] is missing.
SparseActions ==
  { <<0, T_ID, TE_SHIFT(1)>>, <<1, T_PLUS, TE_SHIFT(3)>>,
    <<2, T_EOF, TE_ACCEPT>>, <<3, T_EOF, TE_REDUCE(2)>>,
    <<4, T_EOF, TE_REDUCE(1)>> }

SparseGotos == { <<0, NT_E, TE_GOTO(2)>> }

\* The SLR table of GrammarNestedLR, filled after reserveRows.  State 2
\* holds E -> ( . T ) and T -> . id, state 4 holds T -> id . and reduces on
\* `)` only.
NestedActions ==
  { <<0, T_LEFT_PAREN, TE_SHIFT(2)>>, <<1, T_EOF, TE_ACCEPT>>,
    <<2, T_ID, TE_SHIFT(4)>>, <<3, T_RIGHT_PAREN, TE_SHIFT(5)>>,
    <<4, T_RIGHT_PAREN, TE_REDUCE(2)>>, <<5, T_EOF, TE_REDUCE(1)>> }

NestedGotos == { <<0, NT_E, TE_GOTO(1)>>, <<2, NT_T, TE_GOTO(3)>> }

\* The tables a parser is constructed with:
\*   "expr"    the fixture with the productions its comments name
\*   "fixture" the fixture with the arguments it passes to TE_REDUCE
\*   "sparse"  the client table for GrammarSparseLR
\*   "nested"  the client table for GrammarNestedLR
LRTables == {"expr", "fixture", "sparse", "nested"}

ActionEntries(table) ==
  CASE table = "expr" ->
         FixtureShifts \cup { <<e[1], e[2], TE_REDUCE(e[3])>> : e \in FixtureReduces }
    [] table = "fixture" ->
         FixtureShifts \cup
         { <<e[1], e[2], TE_REDUCE(FixtureReduceArg(e[1], e[2], e[3]))>> : e \in FixtureReduces }
    [] table = "sparse" -> SparseActions
    [] table = "nested" -> NestedActions

GotoEntries(table) ==
  CASE table \in {"expr", "fixture"} -> FixtureGotos
    [] table = "sparse" -> SparseGotos
    [] table = "nested" -> NestedGotos

TableGrammar(table) ==
  CASE table \in {"expr", "fixture"} -> GrammarExpressionLR
    [] table = "sparse" -> GrammarSparseLR
    [] table = "nested" -> GrammarNestedLR

\* The number of rows of the action table and of the goto table when the
\* parser is constructed: reserveRows, or one more than the largest state
\* atAction (atGoto) was called with.
InitialActionRows(table) ==
  IF table = "sparse" THEN 5 ELSE ReservedRows

InitialGotoRows(table) ==
  IF table = "sparse" THEN 1 ELSE ReservedRows

Lookup(entries, state, symbol) ==
  IF \E e \in entries : e[1] = state /\ e[2] = symbol
  THEN (CHOOSE e \in entries : e[1] = state /\ e[2] = symbol)[3]
  ELSE EmptyEntry

\* LRParsingTable::atAction and atGoto: the entry returned, and the number
\* of rows the table has after the call.
AtAction(table, state, terminal) == Lookup(ActionEntries(table), state, terminal)
AtGoto(table, state, nonTerminal) == Lookup(GotoEntries(table), state, nonTerminal)
RowsAfterAt(rows, state) == IF state >= rows THEN state + 1 ELSE rows

\* LRParsingTable::getGotos: the non-terminals with a non-error goto entry.
GetGotos(table, state) ==
  { variable \in NonTerminals : ~IsError(AtGoto(table, state, variable)) }



(***************************************************************************)
(* State.                                                                  *)
(***************************************************************************)
VARIABLES
  tbl,                \* p_Table: the table the parser was constructed with
  input,              \* the tokens of the source the lexical analyzer holds
  pos,                \* the number of tokens the lexical analyzer has handed out
  ert,                \* the ErrorRecoveryType argument of the running parse
  pc,                 \* "idle", "loop" (inside the main loop) or how parse ended
  parses,             \* the number of parse calls made on the parser
  sourced,            \* the number of tokens of all the sources given so far
  m_Stack,            \* the parsing stack, bottom first
  m_CurrInputToken,   \* the name of the current input token
  recovered,          \* how often error recovery returned in the running parse
  m_CurrTopState,     \* LR: the current-top handle
  errorNum,           \* LR: the local errorNum of parse
  actionRows,         \* LR: actionTable.size()
  gotoRows,           \* LR: gotoTable.size()
  reductions,         \* LR: the productions whose postfix action was dispatched
  tick,               \* LR: the parity of the number of main loop iterations
  m_CurrTopElement,   \* LL: the element popped last
  expansions,         \* LL: the productions expanded by this parse
  exitToken,          \* LL: the current token when the main loop was left
  p_Vector,           \* ProductionVector: the productions
  FIRST,              \* ProductionVector: the FIRST cache
  FOLLOW,             \* ProductionVector: the FOLLOW cache
  m_CalculatedFIRST,
  m_CalculatedFOLLOW,
  lastOp,             \* ProductionVector: the operation called last
  thrown,             \* ProductionVector: the exception that operation threw
  firstCurrent,       \* FIRST was computed from the productions now stored
  followCurrent,      \* FOLLOW was computed from the productions now stored
  itemSet,            \* ItemSet: the object the operations are called on
  other,              \* ItemSet: a second object, the argument of merge and ==
  returned,           \* ItemSet: what the operation called last returned
  itemOp,             \* ItemSet: the operation called last and its arguments
  itemStatus,         \* ItemSet: "ok", or how the process ended
  checkedIterators,   \* the build aborts on a comparison of iterators of
                      \* two containers and on a dereference of end()
  lhsSymbol,          \* GrammaticalSymbol: the left operand of a comparison
  rhsSymbol,          \* GrammaticalSymbol: the right operand
  comparison,         \* GrammaticalSymbol: what the comparisons returned
  machine,            \* FSM: the final states and the transition function
  fsmInput,           \* FSM: the input the machine is simulated against
  fsmResult,          \* FSM: the FSMResult of the simulation
  nfaResult,          \* FSM: the FSMResult of the NFA engine on the table,
                      \* the final states and the input given to the DFA
  closureOf,          \* _epsilon_closure: the argument set
  closureRes,         \* _epsilon_closure: res
  closureStack,       \* _epsilon_closure: stack, bottom first
  closurePc,          \* _epsilon_closure: "idle", "loop" or "returned"
  sourceCode,         \* LexicalAnalyzer: the sourceCode it was constructed with
  m_SourceCode,       \* LexicalAnalyzer: the remaining input
  m_Line,
  m_Col,
  calls               \* LexicalAnalyzer: the calls made, with what they returned

driverVars == <<tbl, input, pos, ert, pc, parses, sourced, m_Stack, m_CurrInputToken,
                recovered>>
lrVars == <<m_CurrTopState, errorNum, actionRows, gotoRows, reductions, tick>>
llVars == <<m_CurrTopElement, expansions, exitToken>>
pvVars == <<p_Vector, FIRST, FOLLOW, m_CalculatedFIRST, m_CalculatedFOLLOW, lastOp,
            thrown, firstCurrent, followCurrent>>
isVars == <<itemSet, other, returned, itemOp, itemStatus, checkedIterators>>
ecVars == <<closureOf, closureRes, closureStack, closurePc>>
fnVars == <<lhsSymbol, rhsSymbol, comparison, machine, fsmInput, fsmResult, nfaResult,
            ecVars>>
laVars == <<sourceCode, m_SourceCode, m_Line, m_Col, calls>>
vars == <<driverVars, lrVars, llVars, pvVars, isVars, fnVars, laVars>>

\* The tokens a source is made of, and the sources of at most n tokens.  All
\* the sources a parser is given hold at most MaxTokens tokens together.
InputTerminals == {T_ID, T_PLUS, T_STAR, T_LEFT_PAREN, T_RIGHT_PAREN}
Sources(n) == UNION { [1 .. k -> InputTerminals] : k \in 0 .. n }

\* A lexical analyzer that drops the token after the one it returns; the
\* derivation properties tell it from GetNextToken.
GetNextTokenSkipping(source, p) ==
  IF p < Len(source)
  THEN [name |-> source[p + 1], pos |-> p + 2]
  ELSE [name |-> T_EOF, pos |-> p]

\* A stretch of a source no prefix of which the automaton of the lexical
\* analyzer matches; it stands where a token would.
Unmatched == NT_COUNT
UnmatchedSources(n) ==
  { source \in UNION { [1 .. k -> InputTerminals \cup {Unmatched}] : k \in 0 .. n } :
      \E i \in 1 .. Len(source) : source[i] = Unmatched }

\* Parser::get_next_token: the token name and the new position.  At the end
\* of the source, and where no prefix of the remaining source is matched,
\* the lexical analyzer returns a default result, whose token is named
\* T_EOF, and removes nothing from the source.
GetNextToken(source, p) ==
  IF p < Len(source) /\ source[p + 1] # Unmatched
  THEN [name |-> source[p + 1], pos |-> p + 1]
  ELSE [name |-> T_EOF, pos |-> p]

\* The values the variables of the other components hold.
IdleLR ==
  /\ m_CurrTopState = 0 /\ errorNum = 0 /\ actionRows = 0 /\ gotoRows = 0
  /\ reductions = <<>> /\ tick = 0
IdleLL == m_CurrTopElement = DefaultElement /\ expansions = <<>> /\ exitToken = T_EOF
\* No lexical analyzer was constructed.
IdleLA ==
  /\ sourceCode = <<>> /\ m_SourceCode = <<>> /\ m_Line = 0 /\ m_Col = 0
  /\ calls = <<>>
\* No symbol was compared.
NoComparison == [done |-> FALSE, eq |-> FALSE, lt |-> FALSE, gt |-> FALSE]
IdleSym ==
  /\ lhsSymbol = [isTerminal |-> TRUE, value |-> 0]
  /\ rhsSymbol = [isTerminal |-> TRUE, value |-> 0]
  /\ comparison = NoComparison
\* No machine was simulated.
NoFSMResult == [done |-> FALSE, mode |-> "none", accepted |-> FALSE, finalState |-> {},
                indecies |-> [start |-> 0, end |-> 0]]
\* _epsilon_closure was not called.
IdleEC ==
  /\ closureOf = {} /\ closureRes = {} /\ closureStack = <<>> /\ closurePc = "idle"
IdleFSM ==
  /\ machine = [type |-> "none", finalStates |-> {}, table |-> <<>>, epsilon |-> <<>>]
  /\ fsmInput = <<>> /\ fsmResult = NoFSMResult /\ nfaResult = NoFSMResult
\* ItemSet{}: m_Set and m_Closure are empty vectors.
EmptyItemSet == [m_Set |-> <<>>, m_Closure |-> <<>>]
NoItemOp == [name |-> "none", arg |-> <<>>, before |-> <<>>]
IdleIS ==
  /\ itemSet = EmptyItemSet /\ other = EmptyItemSet
  /\ returned = EmptyItemSet
  /\ itemOp = NoItemOp /\ itemStatus = "ok" /\ checkedIterators = FALSE
IdlePV ==
  /\ p_Vector = <<>> /\ FIRST = <<>> /\ FOLLOW = <<>>
  /\ m_CalculatedFIRST = FALSE /\ m_CalculatedFOLLOW = FALSE /\ lastOp = "none"
  /\ thrown = "none" /\ firstCurrent = FALSE /\ followCurrent = FALSE
IdleDriver ==
  /\ tbl = "none" /\ input = <<>> /\ pos = 0 /\ ert = "ERT_NONE" /\ pc = "idle"
  /\ parses = 0 /\ sourced = 0 /\ m_Stack = <<>> /\ m_CurrInputToken = T_EOF
  /\ recovered = 0

(***************************************************************************)
(* The LR driver.                                                          *)
(***************************************************************************)
START_STATE == 0

\* The recovery types a parse is called with.
LRRecoveryTypes == {"ERT_NONE", "ERT_PANIC_MODE", "ERT_NUM"}

\* The counter of returned recoveries saturates here.
RecoveredCap == ERR_RECOVERY_LIMIT + 2
CountRecovery(n) == IF n < RecoveredCap THEN n + 1 ELSE n

\* What undefined behaviour (a read past the last row of gotoTable, pop_back
\* on an empty vector) can lead to: the process dies, or it goes on with
\* corrupted memory.
UndefinedOutcomes == {"aborted", "corrupted"}

\* A parser that still exists can be called again.
Callable == pc \in {"idle", "accepted", "returned", "err_recov_limit",
                    "unaccepted", "stack_underflow", "bad_goto",
                    "invalid_argument", "empty_body", "out_of_range"}

\* The state after construction: LRParser(lexer, parsingTable, startSymbol).
InitLR ==
  /\ IdleIS /\ IdleSym /\ IdleFSM /\ IdleLA /\ IdleEC
  /\ tbl \in LRTables
  /\ input = <<>> /\ pos = 0 /\ ert = "ERT_NONE" /\ pc = "idle" /\ parses = 0
  /\ sourced = 0
  /\ m_Stack = <<>> /\ m_CurrInputToken = T_EOF
  /\ m_CurrTopState = START_STATE /\ errorNum = 0
  /\ actionRows = InitialActionRows(tbl) /\ gotoRows = InitialGotoRows(tbl)
  /\ reductions = <<>> /\ recovered = 0 /\ tick = 0
  /\ IdleLL
  \* the constructor computes FIRST and FOLLOW of the grammar
  /\ p_Vector = TableGrammar(tbl)
  /\ FIRST = CalcFIRST(<<>>, p_Vector)
  /\ FOLLOW = CalcFOLLOW(<<>>, FIRST, p_Vector)
  /\ m_CalculatedFIRST = TRUE /\ m_CalculatedFOLLOW = TRUE
  /\ lastOp = "calculateFOLLOW"
  /\ thrown = "none" /\ firstCurrent = TRUE /\ followCurrent = TRUE

\* parse, up to the main loop: _reset_parser_state, _push_state(START_STATE),
\* the first token, errorNum = 0.  The caller has given the lexical analyzer
\* the source to parse.
LRParseSource(source, type) ==
  /\ Callable /\ parses < MaxParses
  /\ LET first == GetNextToken(source, 0)
     IN /\ input' = source
        /\ sourced' = sourced + Len(source)
        /\ ert' = type
        /\ m_Stack' = <<START_STATE>>
        /\ m_CurrTopState' = START_STATE
        /\ m_CurrInputToken' = first.name
        /\ pos' = first.pos
  /\ errorNum' = 0
  /\ pc' = "loop"
  /\ parses' = parses + 1
  /\ reductions' = <<>> /\ recovered' = 0 /\ tick' = 0
  /\ UNCHANGED <<tbl, actionRows, gotoRows, llVars, pvVars, isVars, fnVars, laVars>>

\* parse(type) on a source the lexical analyzer tokenizes to its end.
LRParse ==
  \E source \in Sources(MaxTokens - sourced), type \in LRRecoveryTypes :
    LRParseSource(source, type)

\* parse(type) on a source that holds a stretch the automaton does not match.
LRParseUnmatched ==
  \E source \in UnmatchedSources(MaxTokens - sourced), type \in LRRecoveryTypes :
    LRParseSource(source, type)

\* The entry the main loop looks at: action[m_CurrTopState][m_CurrInputToken]
CurrEntry == AtAction(tbl, m_CurrTopState, m_CurrInputToken)

\* _push_state that pushes the start state, whatever state is.
PushStartState(stack, state) == Append(stack, START_STATE)

\* _push_state
PushState(stack, state) == Append(stack, state)

\* _pop_states that pops one state, whatever num is.
PopOneState(stack, num) == SubSeq(stack, 1, Len(stack) - 1)

\* _pop_states(num): the stack without its num top elements
PopStates(stack, num) == SubSeq(stack, 1, Len(stack) - num)

\* The number of states a reduction by the production pops.
ProdBodyLength(production) == Len(production.prodBody)

\* _error_recov_panic_mode, first loop: pop states until one has a goto.
RECURSIVE PanicFindState(_, _, _)
PanicFindState(table, rows, stack) ==
  IF stack = <<>>
  THEN [found |-> "no", stack |-> stack]
  ELSE LET stateNum == stack[Len(stack)]
       IN IF stateNum >= rows
          THEN [found |-> "undefined", stack |-> stack]
          ELSE IF GetGotos(table, stateNum) # {}
          THEN [found |-> "yes", stack |-> stack]
          ELSE PanicFindState(table, rows, SubSeq(stack, 1, Len(stack) - 1))

\* A second loop that reads one token more after it has synchronized.
RECURSIVE PanicScanConsuming(_, _, _, _, _, _)
PanicScanConsuming(follow, nonTerminals, source, name, p, hasReachedEnd) ==
  IF hasReachedEnd
  THEN [synchronized |-> FALSE, nonTerminal |-> -1, name |-> name, pos |-> p]
  ELSE LET candidates == {v \in nonTerminals : name \in follow[v]}
           next == GetNextToken(source, p)
       IN IF candidates # {}
          THEN [synchronized |-> TRUE,
                nonTerminal |-> CHOOSE v \in candidates : \A w \in candidates : v <= w,
                name |-> next.name, pos |-> next.pos]
          ELSE PanicScanConsuming(follow, nonTerminals, source, next.name, next.pos,
                                  name = T_EOF)

\* _error_recov_panic_mode, second loop: read tokens until one is in FOLLOW
\* of a recorded non-terminal; the non-terminals are tried in the order
\* getGotos returns them.
RECURSIVE PanicScan(_, _, _, _, _, _)
PanicScan(follow, nonTerminals, source, name, p, hasReachedEnd) ==
  IF hasReachedEnd
  THEN [synchronized |-> FALSE, nonTerminal |-> -1, name |-> name, pos |-> p]
  ELSE LET candidates == {v \in nonTerminals : name \in follow[v]}
           next == GetNextToken(source, p)
       IN IF candidates # {}
          THEN [synchronized |-> TRUE,
                nonTerminal |-> CHOOSE v \in candidates : \A w \in candidates : v <= w,
                name |-> name, pos |-> p]
          ELSE PanicScan(follow, nonTerminals, source, next.name, next.pos, name = T_EOF)

\* One iteration of the main loop in which the entry is an error or empty:
\* _check_and_resolve_parsing_errors throws or runs the recovery.  errorNum
\* is a parameter passed by value: the increment is made on the copy.
LRError ==
  /\ pc = "loop"
  /\ IsError(CurrEntry)
  /\ actionRows' = RowsAfterAt(actionRows, m_CurrTopState)
  /\ IF errorNum = ERR_RECOVERY_LIMIT
     THEN /\ pc' = "err_recov_limit"
          /\ UNCHANGED <<m_Stack, m_CurrTopState, m_CurrInputToken, pos, recovered>>
     ELSE IF ert # "ERT_PANIC_MODE"
     THEN /\ pc' = "unaccepted"
          /\ UNCHANGED <<m_Stack, m_CurrTopState, m_CurrInputToken, pos, recovered>>
     ELSE \E f \in {PanicFindState(tbl, gotoRows, m_Stack)} :
            IF f.found # "yes"
            THEN /\ IF f.found = "no"
                    THEN pc' = "aborted"
                    ELSE pc' \in UndefinedOutcomes
                 /\ m_Stack' = f.stack
                 /\ UNCHANGED <<m_CurrTopState, m_CurrInputToken, pos, recovered>>
            ELSE \E r \in {PanicScan(FOLLOW, GetGotos(tbl, f.stack[Len(f.stack)]),
                                     input, m_CurrInputToken, pos, FALSE)} :
                   /\ pc' = "loop"
                   /\ m_CurrInputToken' = r.name
                   /\ pos' = r.pos
                   /\ recovered' = CountRecovery(recovered)
                   /\ IF r.synchronized
                      THEN \E newState \in
                               {AtGoto(tbl, f.stack[Len(f.stack)], r.nonTerminal).number} :
                             /\ m_Stack' = PushState(f.stack, newState)
                             /\ m_CurrTopState' = newState
                      ELSE /\ m_Stack' = f.stack
                           /\ UNCHANGED m_CurrTopState
  /\ errorNum' = errorNum
  /\ tick' = 1 - tick
  /\ UNCHANGED <<tbl, input, ert, parses, sourced, gotoRows, reductions, llVars, pvVars, isVars, fnVars, laVars>>

\* An iteration whose entry is a shift.
LRShift ==
  /\ pc = "loop"
  /\ ~IsError(CurrEntry) /\ CurrEntry.type = "TET_ACTION_SHIFT"
  /\ LET next == GetNextToken(input, pos)
     IN /\ m_Stack' = PushState(m_Stack, CurrEntry.number)
        /\ m_CurrTopState' = CurrEntry.number
        /\ m_CurrInputToken' = next.name
        /\ pos' = next.pos
  /\ actionRows' = RowsAfterAt(actionRows, m_CurrTopState)
  /\ tick' = 1 - tick
  /\ UNCHANGED <<tbl, input, ert, pc, parses, sourced, errorNum, gotoRows, reductions,
                 recovered, llVars, pvVars, isVars, fnVars, laVars>>

\* An iteration whose entry is a reduce: _reduce(currEntry.number).
LRReduce ==
  /\ pc = "loop"
  /\ ~IsError(CurrEntry) /\ CurrEntry.type = "TET_ACTION_REDUCE"
  /\ actionRows' = RowsAfterAt(actionRows, m_CurrTopState)
  \* the postfix action runs before the states are popped
  /\ reductions' = Append(reductions, CurrEntry.number)
  /\ LET production == p_Vector[CurrEntry.number + 1]
         prodBodyLength == ProdBodyLength(production)
         popped == PopStates(m_Stack, prodBodyLength)
         stateNum == popped[Len(popped)]
         currEntry == AtGoto(tbl, stateNum, production.prodHead)
     IN IF Len(m_Stack) < prodBodyLength + 1
        THEN /\ pc' = "stack_underflow"
             /\ UNCHANGED <<m_Stack, m_CurrTopState, gotoRows>>
        ELSE /\ gotoRows' = RowsAfterAt(gotoRows, stateNum)
             /\ IF currEntry.type # "TET_GOTO"
                THEN /\ pc' = "bad_goto"
                     /\ m_Stack' = popped
                     /\ m_CurrTopState' = stateNum
                ELSE /\ pc' = "loop"
                     /\ m_Stack' = PushState(popped, currEntry.number)
                     /\ m_CurrTopState' = currEntry.number
  /\ tick' = 1 - tick
  /\ UNCHANGED <<tbl, input, pos, ert, parses, sourced, m_CurrInputToken, errorNum,
                 recovered, llVars, pvVars, isVars, fnVars, laVars>>

\* An iteration whose entry is accept: the postfix action of production 0
\* is dispatched and parse returns.
LRAccept ==
  /\ pc = "loop"
  /\ ~IsError(CurrEntry) /\ CurrEntry.type = "TET_ACCEPT"
  /\ actionRows' = RowsAfterAt(actionRows, m_CurrTopState)
  /\ reductions' = Append(reductions, 0)
  /\ pc' = "accepted"
  /\ tick' = 1 - tick
  /\ UNCHANGED <<tbl, input, pos, ert, parses, sourced, m_Stack, m_CurrInputToken,
                 m_CurrTopState, errorNum, gotoRows, recovered, llVars, pvVars, isVars, fnVars, laVars>>

NextLR == LRParse \/ LRError \/ LRShift \/ LRReduce \/ LRAccept

SpecLR == InitLR /\ [][NextLR]_vars

\* An iteration of the main loop, whatever it does.
Iterate == LRError \/ LRShift \/ LRReduce \/ LRAccept

\* parse runs on the calling thread and is not suspended: while the main
\* loop has not been left, its next iteration is made.
FairSpecLR == SpecLR /\ WF_vars(Iterate)

(***************************************************************************)
(* The LL driver.                                                          *)
(***************************************************************************)
\* grammer_expression: the productions of the LL expression grammar with
\* their action and synthesized records.
GrammerExpression ==
  << Prod(NT_E, <<GS(NT_T), ActRecord, GS(NT_EP), SynRecord>>),
     Prod(NT_EP, <<GS(T_PLUS), GS(NT_T), GS(NT_EP)>>),
     Prod(NT_T, <<GS(NT_F), GS(NT_TP)>>),
     Prod(NT_TP, <<GS(T_STAR), ActRecord, GS(NT_F), SynRecord, GS(NT_TP)>>),
     Prod(NT_F, <<GS(T_LEFT_PAREN), GS(NT_E), GS(T_RIGHT_PAREN)>>),
     Prod(NT_F, <<GS(T_ID)>>),
     Prod(NT_EP, <<GS(T_EPSILON)>>),
     Prod(NT_TP, <<GS(T_EPSILON)>>) >>

\* The single-symbol grammar S -> a, with E for S and id for a.
GrammarSingle == << Prod(NT_E, <<GS(T_ID)>>) >>

\* define_table_llparser: <<non-terminal, terminal, prodIndex>>
FixtureLLEntries ==
  { <<NT_E, T_ID, 0>>, <<NT_E, T_LEFT_PAREN, 0>>,
    <<NT_EP, T_PLUS, 1>>, <<NT_EP, T_RIGHT_PAREN, 6>>, <<NT_EP, T_EOF, 6>>,
    <<NT_T, T_ID, 2>>, <<NT_T, T_LEFT_PAREN, 2>>,
    <<NT_TP, T_STAR, 3>>,
    <<NT_TP, T_PLUS, 7>>, <<NT_TP, T_RIGHT_PAREN, 7>>, <<NT_TP, T_EOF, 7>>,
    <<NT_F, T_ID, 5>>, <<NT_F, T_LEFT_PAREN, 4>> }

\* The LL(1) table of the single-symbol grammar.
SingleLLEntries == { <<NT_E, T_ID, 0>> }

LLTables == {"llexpr", "single"}

LLGrammar(table) == IF table = "llexpr" THEN GrammerExpression ELSE GrammarSingle
LLEntries(table) == IF table = "llexpr" THEN FixtureLLEntries ELSE SingleLLEntries

\* LLTableEntry: a default constructed entry is an error
LLErrorEntry == [isError |-> TRUE, prodIndex |-> -1]

\* p_Table[variable][terminal]
LLTableAt(table, variable, terminal) ==
  IF \E e \in LLEntries(table) : e[1] = variable /\ e[2] = terminal
  THEN [isError |-> FALSE,
        prodIndex |-> (CHOOSE e \in LLEntries(table) : e[1] = variable /\ e[2] = terminal)[3]]
  ELSE LLErrorEntry

\* get_start_symbol
LLStartSymbol == NT_E

LLRecoveryTypes == {"ERT_NONE", "ERT_PANIC_MODE", "ERT_NUM"}

\* static size_t numOfDetectedErrs of error_recovery: no statement assigns it.
numOfDetectedErrs == 0

Reverse(seq) == [i \in 1 .. Len(seq) |-> seq[Len(seq) + 1 - i]]

\* The loop pushing a production body from its last element to its first.
PushBody(stack, prodBody) == stack \o Reverse(prodBody)

PopBack(stack) == SubSeq(stack, 1, Len(stack) - 1)

\* The state after construction: LLParser(startSymbol, parsingTable, lexer).
InitLL ==
  /\ IdleIS /\ IdleSym /\ IdleFSM /\ IdleLA /\ IdleEC
  /\ tbl \in LLTables
  /\ input = <<>> /\ pos = 0 /\ ert = "ERT_NONE" /\ pc = "idle" /\ parses = 0
  /\ sourced = 0
  /\ m_Stack = <<>> /\ m_CurrInputToken = T_EOF /\ recovered = 0
  /\ IdleLL /\ IdleLR
  /\ p_Vector = LLGrammar(tbl)
  /\ FIRST = <<>> /\ FOLLOW = <<>>
  /\ m_CalculatedFIRST = FALSE /\ m_CalculatedFOLLOW = FALSE
  /\ lastOp = "none"
  /\ thrown = "none" /\ firstCurrent = FALSE /\ followCurrent = FALSE

\* parse, up to the main loop: the start symbol is pushed on m_Stack as it
\* is, and the first token is fetched.
LLParseSource(source, type) ==
  /\ Callable /\ parses < MaxParses
  /\ LET first == GetNextToken(source, 0)
     IN /\ input' = source
        /\ sourced' = sourced + Len(source)
        /\ ert' = type
        /\ m_CurrInputToken' = first.name
        /\ pos' = first.pos
  /\ m_Stack' = Append(m_Stack, GS(LLStartSymbol))
  /\ pc' = "loop"
  /\ parses' = parses + 1
  /\ expansions' = <<>> /\ recovered' = 0
  /\ UNCHANGED <<tbl, m_CurrTopElement, exitToken, lrVars, pvVars, isVars, fnVars, laVars>>

\* parse(type) on a source the lexical analyzer tokenizes to its end.
LLParse ==
  \E source \in Sources(MaxTokens - sourced), type \in LLRecoveryTypes :
    LLParseSource(source, type)

\* parse(type) on a source that holds a stretch the automaton does not match.
LLParseUnmatched ==
  \E source \in UnmatchedSources(MaxTokens - sourced), type \in LLRecoveryTypes :
    LLParseSource(source, type)

\* The main loop finds the stack empty: reset_parser_state and return.
LLReturn ==
  /\ pc = "loop" /\ m_Stack = <<>>
  /\ exitToken' = m_CurrInputToken
  /\ m_CurrTopElement' = DefaultElement
  /\ m_CurrInputToken' = T_EOF
  /\ pc' = "returned"
  /\ UNCHANGED <<tbl, input, pos, ert, parses, sourced, m_Stack, recovered, expansions,
                 lrVars, pvVars, isVars, fnVars, laVars>>

\* The element the iteration pops.
LLTop == m_Stack[Len(m_Stack)]

\* An iteration that pops a synthesized or an action record and runs its
\* action.  actDataAct, the action of the fixture's action records, reads
\* stack.at(stack.size() - 2).
LLRecord ==
  /\ pc = "loop" /\ m_Stack # <<>>
  /\ LLTop.type # "PET_GRAM_SYMBOL"
  /\ m_CurrTopElement' = LLTop
  /\ m_Stack' = PopBack(m_Stack)
  /\ pc' = IF LLTop.type = "PET_ACTION_RECORD" /\ Len(m_Stack) - 1 < 2
           THEN "out_of_range" ELSE "loop"
  /\ UNCHANGED <<tbl, input, pos, ert, parses, sourced, m_CurrInputToken, recovered,
                 expansions, exitToken, lrVars, pvVars, isVars, fnVars, laVars>>

\* error_recovery before it dispatches on the recovery type: "limit" and
\* "invalid" are the two exceptions it throws.
ErrorRecoveryCheck(type) ==
  IF type \notin {"ERT_NONE", "ERT_ABORT"} /\ numOfDetectedErrs = ERR_RECOVERY_LIMIT
  THEN "err_recov_limit"
  ELSE IF type = "ERT_NUM" THEN "invalid_argument" ELSE "dispatch"

\* An iteration that pops a terminal: parse_grammar_symbol matches it against
\* the current token, fetches the next token and, if they did not match,
\* calls error_recovery, whose result it does not read.  panic_mode pops one
\* more element for a terminal.
LLMatch ==
  /\ pc = "loop" /\ m_Stack # <<>>
  /\ LLTop.type = "PET_GRAM_SYMBOL" /\ IsTerminal(LLTop.gramSymbol)
  /\ m_CurrTopElement' = LLTop
  /\ LET topSymbol == LLTop.gramSymbol
         popped == PopBack(m_Stack)
         matched == topSymbol = m_CurrInputToken
         next == GetNextToken(input, pos)
         check == ErrorRecoveryCheck(ert)
     IN IF topSymbol = EPSILON
        THEN /\ m_Stack' = popped
             /\ UNCHANGED <<m_CurrInputToken, pos, pc, recovered>>
        ELSE /\ m_CurrInputToken' = next.name
             /\ pos' = next.pos
             /\ IF matched \/ (check = "dispatch" /\ ert # "ERT_PANIC_MODE")
                THEN m_Stack' = popped /\ pc' = "loop"
                ELSE IF check # "dispatch"
                THEN m_Stack' = popped /\ pc' = check
                ELSE IF popped = <<>>
                THEN m_Stack' = popped /\ pc' \in UndefinedOutcomes
                ELSE m_Stack' = PopBack(popped) /\ pc' = "loop"
             /\ recovered' = IF ~matched /\ pc' = "loop"
                             THEN CountRecovery(recovered)
                             ELSE recovered
  /\ UNCHANGED <<tbl, input, ert, parses, sourced, expansions, exitToken, lrVars, pvVars, isVars, fnVars, laVars>>

\* The entry of the popped non-terminal for the current token.
LLEntry == LLTableAt(tbl, LLTop.gramSymbol, m_CurrInputToken)

\* An iteration that pops a non-terminal whose entry names a production:
\* check_prod_body, then the body is pushed.
LLExpand ==
  /\ pc = "loop" /\ m_Stack # <<>>
  /\ LLTop.type = "PET_GRAM_SYMBOL" /\ ~IsTerminal(LLTop.gramSymbol)
  /\ ~LLEntry.isError
  /\ m_CurrTopElement' = LLTop
  /\ LET prod == p_Vector[LLEntry.prodIndex + 1]
     IN IF prod.prodBody = <<>>
        THEN /\ pc' = "empty_body"
             /\ m_Stack' = PopBack(m_Stack)
             /\ UNCHANGED expansions
        ELSE /\ pc' = "loop"
             /\ m_Stack' = PushBody(PopBack(m_Stack), prod.prodBody)
             /\ expansions' = Append(expansions, LLEntry.prodIndex)
  /\ UNCHANGED <<tbl, input, pos, ert, parses, sourced, m_CurrInputToken, recovered,
                 exitToken, lrVars, pvVars, isVars, fnVars, laVars>>

\* panic_mode for a popped non-terminal: the loop around
\* panic_mode_try_sync_variable.  top is the popped non-terminal, stack the
\* stack without it, name the current token and p the position of the
\* lexical analyzer.
RECURSIVE PanicModeVariable(_, _, _, _, _, _, _, _)
PanicModeVariable(table, prods, source, top, stack, name, p, expanded) ==
  LET peak == GetNextToken(source, p)
      epsilonEntry == LLTableAt(table, top, EPSILON)
      tableEntry == LLTableAt(table, top, peak.name)
      prodBody == prods[epsilonEntry.prodIndex + 1].prodBody
  IN IF ~epsilonEntry.isError
     THEN IF prodBody = <<>>
          THEN [result |-> "empty_body", stack |-> stack, name |-> name, pos |-> p,
                expanded |-> expanded]
          ELSE [result |-> "loop", stack |-> PushBody(stack, prodBody), name |-> name,
                pos |-> p, expanded |-> Append(expanded, epsilonEntry.prodIndex)]
     ELSE IF ~tableEntry.isError
     THEN [result |-> "loop", stack |-> stack, name |-> peak.name, pos |-> peak.pos,
           expanded |-> expanded]
     ELSE IF peak.name # T_EOF
     THEN PanicModeVariable(table, prods, source, top, stack, peak.name, peak.pos, expanded)
     ELSE IF stack = <<>>
     THEN [result |-> "undefined", stack |-> stack, name |-> peak.name, pos |-> peak.pos,
           expanded |-> expanded]
     ELSE IF PopBack(stack) = <<>>
     THEN [result |-> "loop", stack |-> <<>>, name |-> peak.name, pos |-> peak.pos,
           expanded |-> expanded]
     ELSE PanicModeVariable(table, prods, source, top, PopBack(stack), peak.name,
                            peak.pos, expanded)

\* An iteration that pops a non-terminal whose entry is an error:
\* error_recovery is called and its result is not read.
LLError ==
  /\ pc = "loop" /\ m_Stack # <<>>
  /\ LLTop.type = "PET_GRAM_SYMBOL" /\ ~IsTerminal(LLTop.gramSymbol)
  /\ LLEntry.isError
  /\ m_CurrTopElement' = LLTop
  /\ LET check == ErrorRecoveryCheck(ert)
         r == PanicModeVariable(tbl, p_Vector, input, LLTop.gramSymbol,
                                PopBack(m_Stack), m_CurrInputToken, pos, expansions)
     IN IF check # "dispatch"
        THEN /\ pc' = check
             /\ m_Stack' = PopBack(m_Stack)
             /\ UNCHANGED <<m_CurrInputToken, pos, expansions>>
        ELSE IF ert # "ERT_PANIC_MODE"
        THEN /\ pc' = "loop"
             /\ m_Stack' = PopBack(m_Stack)
             /\ UNCHANGED <<m_CurrInputToken, pos, expansions>>
        ELSE /\ IF r.result = "undefined"
                THEN pc' \in UndefinedOutcomes
                ELSE pc' = r.result
             /\ m_Stack' = r.stack
             /\ m_CurrInputToken' = r.name
             /\ pos' = r.pos
             /\ expansions' = r.expanded
  /\ recovered' = IF pc' = "loop" THEN CountRecovery(recovered) ELSE recovered
  /\ UNCHANGED <<tbl, input, ert, parses, sourced, exitToken, lrVars, pvVars, isVars, fnVars, laVars>>

NextLL == LLParse \/ LLReturn \/ LLRecord \/ LLMatch \/ LLExpand \/ LLError

SpecLL == InitLL /\ [][NextLL]_vars

(***************************************************************************)
(* Either driver on sources the lexical analyzer cannot tokenize to the    *)
(* end.                                                                    *)
(***************************************************************************)
InitUnmatched == InitLR \/ InitLL

\* The driver that was constructed runs.
NextUnmatched ==
  \/ tbl \in LRTables /\ LRParseUnmatched
  \/ tbl \in LRTables /\ LRError
  \/ tbl \in LRTables /\ LRShift
  \/ tbl \in LRTables /\ LRReduce
  \/ tbl \in LRTables /\ LRAccept
  \/ tbl \in LLTables /\ LLParseUnmatched
  \/ tbl \in LLTables /\ LLReturn
  \/ tbl \in LLTables /\ LLRecord
  \/ tbl \in LLTables /\ LLMatch
  \/ tbl \in LLTables /\ LLExpand
  \/ tbl \in LLTables /\ LLError

SpecUnmatched == InitUnmatched /\ [][NextUnmatched]_vars

(***************************************************************************)
(* Operations on a ProductionVector.                                       *)
(***************************************************************************)
\* The productions a client pushes: E -> T, T -> epsilon, T -> id, E -> T +,
\* E -> F E, F -> T T, and E -> T epsilon (EPSILON written after a symbol).
PushedProductions ==
  { Prod(NT_E, <<GS(NT_T)>>),
    Prod(NT_T, <<GS(T_EPSILON)>>),
    Prod(NT_T, <<GS(T_ID)>>),
    Prod(NT_E, <<GS(NT_T), GS(T_PLUS)>>),
    Prod(NT_E, <<GS(NT_F), GS(NT_E)>>),
    Prod(NT_F, <<GS(NT_T), GS(NT_T)>>),
    Prod(NT_E, <<GS(NT_T), GS(T_EPSILON)>>) }

\* A default constructed ProductionVector.
InitPV ==
  /\ IdleDriver /\ IdleLR /\ IdleLL /\ IdleIS /\ IdleSym /\ IdleFSM /\ IdleLA /\ IdleEC
  /\ p_Vector = <<>> /\ FIRST = <<>> /\ FOLLOW = <<>>
  /\ m_CalculatedFIRST = FALSE /\ m_CalculatedFOLLOW = FALSE
  /\ lastOp = "none"
  /\ thrown = "none" /\ firstCurrent = FALSE /\ followCurrent = FALSE

\* The call made last has returned or thrown.
Returned == thrown # "endless"

pushProduction ==
  /\ Returned
  /\ Len(p_Vector) < MaxProds
  /\ \E prod \in PushedProductions : p_Vector' = Append(p_Vector, prod)
  /\ lastOp' = "pushProduction" /\ thrown' = "none"
  /\ firstCurrent' = FALSE /\ followCurrent' = FALSE
  /\ UNCHANGED <<FIRST, FOLLOW, m_CalculatedFIRST, m_CalculatedFOLLOW,
                 driverVars, lrVars, llVars, isVars, fnVars, laVars>>

\* clear empties the productions and both caches; it assigns neither flag.
clear ==
  /\ Returned
  /\ p_Vector' = <<>> /\ FIRST' = <<>> /\ FOLLOW' = <<>>
  /\ lastOp' = "clear" /\ thrown' = "none"
  /\ firstCurrent' = FALSE /\ followCurrent' = FALSE
  /\ UNCHANGED <<m_CalculatedFIRST, m_CalculatedFOLLOW, driverVars, lrVars, llVars, isVars, fnVars, laVars>>

calculateFIRST ==
  /\ Returned
  /\ IF m_CalculatedFIRST
     THEN UNCHANGED <<FIRST, firstCurrent>>
     ELSE FIRST' = CalcFIRST(FIRST, p_Vector) /\ firstCurrent' = TRUE
  /\ m_CalculatedFIRST' = TRUE
  /\ lastOp' = "calculateFIRST" /\ thrown' = "none"
  /\ UNCHANGED <<p_Vector, FOLLOW, m_CalculatedFOLLOW, followCurrent,
                 driverVars, lrVars, llVars, isVars, fnVars, laVars>>

\* calculateFOLLOW: the cached answer, the logic error of a missing FIRST,
\* the out_of_range of at(0) on an empty vector (after FOLLOW.resize) or of
\* FIRST.at in the loop, a loop that never ends (thrown = "endless": the call
\* does not return and nothing is called after it), or the computed sets.
calculateFOLLOW ==
  /\ Returned
  /\ lastOp' = "calculateFOLLOW"
  /\ IF m_CalculatedFOLLOW
     THEN thrown' = "none" /\ UNCHANGED <<FOLLOW, m_CalculatedFOLLOW, followCurrent>>
     ELSE IF ~m_CalculatedFIRST
     THEN thrown' = "runtime_error"
          /\ UNCHANGED <<FOLLOW, m_CalculatedFOLLOW, followCurrent>>
     ELSE IF p_Vector = <<>>
     THEN thrown' = "out_of_range" /\ FOLLOW' = Resize(FOLLOW, NT_COUNT)
          /\ UNCHANGED <<m_CalculatedFOLLOW, followCurrent>>
     ELSE \E r \in {FollowFrom(FOLLOW, FIRST, p_Vector)} :
            /\ FOLLOW' = r.FO
            /\ thrown' = IF r.thrown THEN "out_of_range"
                         ELSE IF r.endless THEN "endless" ELSE "none"
            /\ m_CalculatedFOLLOW' = (~r.thrown /\ ~r.endless)
            /\ followCurrent' = (~r.thrown /\ ~r.endless)
  /\ UNCHANGED <<p_Vector, FIRST, m_CalculatedFIRST, firstCurrent,
                 driverVars, lrVars, llVars, isVars, fnVars, laVars>>

NextPV == pushProduction \/ clear \/ calculateFIRST \/ calculateFOLLOW

SpecPV == InitPV /\ [][NextPV]_vars

(***************************************************************************)
(* Item and ItemSet.  An item set is the pair of vectors m_Set and         *)
(* m_Closure; an iterator of a vector is a position from 1, end() the      *)
(* position after the last.  Symbols and productions are compared as the   *)
(* enumerations of the tests make operator== compare them: the values of   *)
(* terminals and non-terminals are disjoint.                               *)
(***************************************************************************)
MaxItems == 2

\* The grammar the item sets are built for.
ItemGrammar == GrammarSparseLR

\* Item{production, dotPosition, lookaheads}
Item(production, dotPosition, lookaheads) ==
  [production |-> production, dotPos |-> dotPosition, lookaheads |-> lookaheads]

\* ProductionRecord::size: the grammar symbols of the body.
ProdSize(production) ==
  Len(SelectSeq(production.prodBody, LAMBDA e : e.type = "PET_GRAM_SYMBOL"))

\* m_ActualDotPos as the constructor of Item advances it.
RECURSIVE ActualDotPosFrom(_, _, _, _)
ActualDotPosFrom(prodBody, dotPos, encountered, actual) ==
  IF encountered = dotPos THEN actual
  ELSE ActualDotPosFrom(prodBody, dotPos,
                        IF prodBody[actual + 1].type = "PET_GRAM_SYMBOL"
                        THEN encountered + 1 ELSE encountered,
                        actual + 1)

getActualDotPosition(item) == ActualDotPosFrom(item.production.prodBody, item.dotPos, 0, 0)

isDotPositionAtEnd(item) == getActualDotPosition(item) = ProdSize(item.production)

\* The constructor of Item: the object, or the logic_error it throws when
\* the dot is beyond the grammar symbols of the body.
ItemConstructor(production, dotPosition, lookaheads) ==
  IF dotPosition > ProdSize(production)
  THEN [status |-> "logic_error", item |-> <<>>]
  ELSE [status |-> "ok", item |-> Item(production, dotPosition, lookaheads)]

hasIdenticalCore(item, otherItem) ==
  /\ item.dotPos = otherItem.dotPos
  /\ getActualDotPosition(item) = getActualDotPosition(otherItem)
  /\ item.production = otherItem.production

\* get_item_it with fromClosure = false: std::find_if over m_Set.
get_item_it(set, production, dotPosition) ==
  LET hits == { i \in 1 .. Len(set.m_Set) :
                  set.m_Set[i].dotPos = dotPosition /\ set.m_Set[i].production = production }
  IN IF hits = {} THEN Len(set.m_Set) + 1
     ELSE CHOOSE i \in hits : \A j \in hits : i <= j

\* it != end for an iterator it of m_Set and end = m_Closure.end(), where
\* the iterators are not checked: the addresses differ unless both vectors
\* are empty (the end() of an empty vector is the null iterator).
DiffersFromClosureEnd(set, it) == ~(set.m_Set = <<>> /\ set.m_Closure = <<>>)

\* ItemSet(const std::vector<ItemT>) and ItemSet(items, sameClosure)
ItemSetOf(items) == [m_Set |-> items, m_Closure |-> <<>>]
ItemSetSameClosure(items) == [m_Set |-> items, m_Closure |-> items]

\* A conversion of the cached closure that loses its items.
ItemSetLosing(items) == [m_Set |-> <<>>, m_Closure |-> <<>>]

\* return this->m_Closure: the cached vector converted to an ItemSet.
CachedClosure(items) == ItemSetOf(items)

\* insert with the existing item left alone: the item is always appended.
insertAppending(set, item) ==
  [set |-> [set EXCEPT !.m_Set = Append(@, item)], ret |-> TRUE]

\* ItemSet::insert: the object after the call and the returned flag.
insert(set, item) ==
  LET it == get_item_it(set, item.production, item.dotPos)
      end == Len(set.m_Set) + 1
  IN IF it # end
     THEN [set |-> [set EXCEPT !.m_Set[it].lookaheads = @ \cup item.lookaheads],
           ret |-> ~(item.lookaheads \subseteq set.m_Set[it].lookaheads)]
     ELSE [set |-> [set EXCEPT !.m_Set = Append(@, item)], ret |-> TRUE]

\* The loop of ItemSet::merge from item k of other.m_Set.
RECURSIVE MergeFrom(_, _, _)
MergeFrom(m_Set, otherItems, k) ==
  IF k > Len(otherItems) THEN m_Set
  ELSE LET item == otherItems[k]
           hits == { i \in 1 .. Len(m_Set) : hasIdenticalCore(item, m_Set[i]) }
       IN IF hits = {}
          THEN MergeFrom(Append(m_Set, item), otherItems, k + 1)
          ELSE LET itemIt == CHOOSE i \in hits : \A j \in hits : i <= j
               IN MergeFrom([m_Set EXCEPT ![itemIt].lookaheads = @ \cup item.lookaheads],
                            otherItems, k + 1)

merge(set, otherSet) ==
  [set |-> [set EXCEPT !.m_Set = MergeFrom(@, otherSet.m_Set, 1)], ret |-> TRUE]

\* ItemSet::operator==: size() == size() holds always, the vectors m_Set are
\* compared element by element.
ItemSetEquals(lhs, rhs) == lhs.m_Set = rhs.m_Set

\* GrammaticalSymbolString::calculateFIRST from symbol k of the string; i is
\* the counter of the source, advanced only after a non-terminal.
RECURSIVE SymStringFIRST(_, _, _, _, _)
SymStringFIRST(symbols, prodVecFIRST, k, i, acc) ==
  IF k > Len(symbols) THEN [FIRST |-> acc, thrown |-> FALSE]
  ELSE LET symbol == symbols[k]
           isLastSymbol == i = Len(symbols) - 1
       IN IF IsTerminal(symbol)
          THEN LET isEpsilon == symbol = EPSILON
                   acc1 == IF ~isEpsilon \/ isLastSymbol THEN acc \cup {symbol} ELSE acc
               IN IF ~isEpsilon THEN [FIRST |-> acc1, thrown |-> FALSE]
                  ELSE SymStringFIRST(symbols, prodVecFIRST, k + 1, i, acc1)
          ELSE LET fset == prodVecFIRST[symbol]
                   acc1 == acc \cup fset
                   containsEpsilon == EPSILON \in acc1
                   acc2 == acc1 \ {EPSILON}
               IN IF fset = {} THEN [FIRST |-> acc, thrown |-> TRUE]
                  ELSE IF ~containsEpsilon THEN [FIRST |-> acc2, thrown |-> FALSE]
                  ELSE SymStringFIRST(symbols, prodVecFIRST, k + 1, i + 1,
                                      IF isLastSymbol THEN acc2 \cup {EPSILON} ELSE acc2)

\* _add_to_closure_no_lookaheads from production k.  checked: the build
\* aborts on the comparison of an iterator of m_Set with m_Closure.end().
RECURSIVE AddNoLookaheadsFrom(_, _, _, _)
AddNoLookaheadsFrom(set, symbolProductions, k, checked) ==
  IF k > Len(symbolProductions) THEN [set |-> set, status |-> "ok"]
  ELSE IF checked THEN [set |-> set, status |-> "aborted"]
  ELSE LET item == Item(symbolProductions[k], 0, {})
           it == get_item_it(set, item.production, item.dotPos)
           found == DiffersFromClosureEnd(set, it)
       IN IF ~found
          THEN AddNoLookaheadsFrom([set EXCEPT !.m_Closure = Append(@, item)],
                                   symbolProductions, k + 1, checked)
          ELSE AddNoLookaheadsFrom(set, symbolProductions, k + 1, checked)

\* The inner loop of _add_to_closure_lookaheads from production k.  A found
\* that is true for it = m_Set.end() dereferences end(): status "undefined".
RECURSIVE AddLookaheadsInner(_, _, _, _, _)
AddLookaheadsInner(set, symbolProductions, lookaheads, k, checked) ==
  IF k > Len(symbolProductions) THEN [set |-> set, status |-> "ok"]
  ELSE IF checked THEN [set |-> set, status |-> "aborted"]
  ELSE LET production == symbolProductions[k]
           it == get_item_it(set, production, 0)
           found == DiffersFromClosureEnd(set, it)
       IN IF found
          THEN IF it = Len(set.m_Set) + 1
               THEN [set |-> set, status |-> "undefined"]
               ELSE AddLookaheadsInner(
                      [set EXCEPT !.m_Set[it].lookaheads = @ \cup lookaheads],
                      symbolProductions, lookaheads, k + 1, checked)
          ELSE AddLookaheadsInner(
                 [set EXCEPT !.m_Closure = Append(@, Item(production, 0, lookaheads))],
                 symbolProductions, lookaheads, k + 1, checked)

\* The outer loop of _add_to_closure_lookaheads from production o.
RECURSIVE AddLookaheadsOuter(_, _, _, _, _)
AddLookaheadsOuter(set, symbolProductions, lookaheads, o, checked) ==
  IF o > Len(symbolProductions) THEN [set |-> set, status |-> "ok"]
  ELSE LET r == AddLookaheadsInner(set, symbolProductions, lookaheads, 1, checked)
       IN IF r.status # "ok" THEN r
          ELSE AddLookaheadsOuter(r.set, symbolProductions, lookaheads, o + 1, checked)

\* The loop of CLOSURE over the lookaheads of an item, in the order of the
\* std::set: the lookaheads still to come are those of remaining.
RECURSIVE ClosureOverLookaheads(_, _, _, _, _, _)
ClosureOverLookaheads(set, symbolProductions, symString, first, remaining, checked) ==
  IF remaining = {} THEN [set |-> set, status |-> "ok"]
  ELSE LET lookahead == CHOOSE a \in remaining : \A b \in remaining : a <= b
           f == SymStringFIRST(Append(symString, lookahead), first, 1, 0, {})
       IN IF f.thrown THEN [set |-> set, status |-> "logic_error"]
          ELSE LET r == AddLookaheadsOuter(set, symbolProductions, f.FIRST, 1, checked)
               IN IF r.status # "ok" THEN r
                  ELSE ClosureOverLookaheads(r.set, symbolProductions, symString, first,
                                             remaining \ {lookahead}, checked)

\* The main loop of CLOSURE from item i of m_Closure (from 0, as in the
\* source).
RECURSIVE ClosureLoop(_, _, _, _, _, _)
ClosureLoop(set, grammar, first, isLR0, i, checked) ==
  IF i >= Len(set.m_Closure) THEN [set |-> set, status |-> "ok"]
  ELSE LET item == set.m_Closure[i + 1]
           itemProd == item.production
       IN IF ProdSize(itemProd) = item.dotPos
          THEN ClosureLoop(set, grammar, first, isLR0, i + 1, checked)
          ELSE LET symbolAfterDot ==
                     itemProd.prodBody[getActualDotPosition(item) + 1].gramSymbol
                   symbolProductions ==
                     SelectSeq(grammar, LAMBDA prod : prod.prodHead = symbolAfterDot)
                   startIndex == getActualDotPosition(item) + 1
                   rest == SelectSeq(SubSeq(itemProd.prodBody, startIndex + 1,
                                            Len(itemProd.prodBody)),
                                     LAMBDA se : se.type = "PET_GRAM_SYMBOL")
                   symString == [n \in 1 .. Len(rest) |-> rest[n].gramSymbol]
                   r == IF isLR0
                        THEN AddNoLookaheadsFrom(set, symbolProductions, 1, checked)
                        ELSE ClosureOverLookaheads(set, symbolProductions, symString,
                                                   first, item.lookaheads, checked)
               IN IF IsTerminal(symbolAfterDot)
                  THEN ClosureLoop(set, grammar, first, isLR0, i + 1, checked)
                  ELSE IF r.status # "ok" THEN r
                  ELSE ClosureLoop(r.set, grammar, first, isLR0, i + 1, checked)

\* ItemSet::CLOSURE: the object after the call, the returned ItemSet, how
\* the call ended, and whether grammar.calculateFIRST() was called; first is
\* the FIRST vector of the grammar after that call.
CLOSURE(set, grammar, first, checked) ==
  IF Len(set.m_Closure) > 0
  THEN [set |-> set, ret |-> CachedClosure(set.m_Closure), status |-> "ok",
        usedFIRST |-> FALSE]
  ELSE IF Len(set.m_Set) = 0
  THEN [set |-> set, ret |-> set, status |-> "ok", usedFIRST |-> FALSE]
  ELSE LET set1 == [set EXCEPT !.m_Closure = set.m_Set]
           isLR0 == set1.m_Closure[1].lookaheads = {}
           r == ClosureLoop(set1, grammar, first, isLR0, 0, checked)
       IN [set |-> r.set, ret |-> ItemSetSameClosure(r.set.m_Closure),
           status |-> r.status, usedFIRST |-> ~isLR0]

\* The first loop of GOTO from item i of m_Closure (from 1).
RECURSIVE FoundItemsFrom(_, _, _, _)
FoundItemsFrom(m_Closure, symbol, i, foundItems) ==
  IF i > Len(m_Closure) THEN foundItems
  ELSE LET currItem == m_Closure[i]
           dotPos == getActualDotPosition(currItem)
           predicate ==
             IF ProdSize(currItem.production) = dotPos THEN FALSE
             ELSE currItem.production.prodBody[dotPos + 1].gramSymbol = symbol
       IN FoundItemsFrom(m_Closure, symbol, i + 1,
                         IF predicate THEN insert(foundItems, currItem).set
                         ELSE foundItems)

\* The second loop of GOTO from item k of the found items.
RECURSIVE KernelItemsFrom(_, _, _)
KernelItemsFrom(itemVec, k, result) ==
  IF k > Len(itemVec) THEN result
  ELSE LET item == itemVec[k]
           kernelItem == Item(item.production, item.dotPos + 1, item.lookaheads)
       IN KernelItemsFrom(itemVec, k + 1, insert(result, kernelItem).set)

\* ItemSet::GOTO, with the fields of CLOSURE.
GOTO(set, symbol, grammar, first, checked) ==
  LET c == IF Len(set.m_Closure) = 0
           THEN CLOSURE(set, grammar, first, checked)
           ELSE [set |-> set, ret |-> set, status |-> "ok", usedFIRST |-> FALSE]
      foundItems == FoundItemsFrom(c.set.m_Closure, symbol, 1, EmptyItemSet)
      result == KernelItemsFrom(foundItems.m_Set, 1, EmptyItemSet)
      resultClosure == CLOSURE(result, grammar, first, checked)
  IN IF c.status # "ok"
     THEN [set |-> c.set, ret |-> EmptyItemSet, status |-> c.status,
           usedFIRST |-> c.usedFIRST]
     ELSE [set |-> c.set, ret |-> resultClosure.ret, status |-> resultClosure.status,
           usedFIRST |-> c.usedFIRST \/ resultClosure.usedFIRST]

\* The items a client inserts: [E' -> . E], [E -> . id T], [E' -> . E, $],
\* [E -> . id T, +] and [E -> id . T].
InsertedItems ==
  { Item(ItemGrammar[1], 0, {}),
    Item(ItemGrammar[2], 0, {}),
    Item(ItemGrammar[1], 0, {END_MARKER}),
    Item(ItemGrammar[2], 0, {T_PLUS}),
    Item(ItemGrammar[2], 1, {}) }

\* The items a client inserts into the second set: [E' -> . E], [E -> . id T]
\* and [E -> . id T, +].
InsertedItemsOther ==
  { Item(ItemGrammar[1], 0, {}),
    Item(ItemGrammar[2], 0, {}),
    Item(ItemGrammar[2], 0, {T_PLUS}) }

\* The symbols GOTO is asked for.
GotoSymbols == {NT_E, NT_T, T_ID}

\* Two default constructed item sets and the production vector of the
\* grammar, in a build with or without checked iterators.
InitIS ==
  /\ IdleDriver /\ IdleLR /\ IdleLL /\ IdleSym /\ IdleFSM /\ IdleLA /\ IdleEC
  /\ p_Vector = ItemGrammar /\ FIRST = <<>> /\ FOLLOW = <<>>
  /\ m_CalculatedFIRST = FALSE /\ m_CalculatedFOLLOW = FALSE
  /\ lastOp = "none"
  /\ thrown = "none" /\ firstCurrent = FALSE /\ followCurrent = FALSE
  /\ itemSet = EmptyItemSet /\ other = EmptyItemSet
  /\ returned = EmptyItemSet
  /\ itemOp = NoItemOp /\ itemStatus = "ok"
  /\ checkedIterators \in BOOLEAN

\* grammar.getFIRST() after grammar.calculateFIRST()
FirstAfterCalculate == IF m_CalculatedFIRST THEN FIRST ELSE CalcFIRST(FIRST, p_Vector)

\* How a call that ended with status leaves the process.
StatusAfter(status) == IF status = "undefined" THEN UndefinedOutcomes ELSE {status}

\* itemSet.insert(item)
InsertItem ==
  /\ itemStatus = "ok"
  /\ \E item \in InsertedItems :
       /\ \/ Len(itemSet.m_Set) < MaxItems
          \/ get_item_it(itemSet, item.production, item.dotPos) <= Len(itemSet.m_Set)
       /\ \E r \in {insert(itemSet, item)} :
            /\ itemSet' = r.set
            /\ returned' = r.ret
       /\ itemOp' = [name |-> "insert", arg |-> item, before |-> itemSet.m_Set]
  /\ UNCHANGED <<other, itemStatus, checkedIterators,
                 driverVars, lrVars, llVars, pvVars, fnVars, laVars>>

\* other.insert(item)
InsertItemOther ==
  /\ itemStatus = "ok"
  /\ \E item \in InsertedItemsOther :
       /\ \/ Len(other.m_Set) < MaxItems
          \/ get_item_it(other, item.production, item.dotPos) <= Len(other.m_Set)
       /\ \E r \in {insert(other, item)} :
            /\ other' = r.set
            /\ returned' = r.ret
       /\ itemOp' = [name |-> "other.insert", arg |-> item, before |-> <<>>]
  /\ UNCHANGED <<itemSet, itemStatus, checkedIterators,
                 driverVars, lrVars, llVars, pvVars, fnVars, laVars>>

\* itemSet.merge(other)
MergeOther ==
  /\ itemStatus = "ok"
  /\ \E r \in {merge(itemSet, other)} :
       /\ Len(r.set.m_Set) <= MaxItems
       /\ itemSet' = r.set
       /\ returned' = r.ret
  /\ itemOp' = [name |-> "merge", arg |-> <<>>, before |-> itemSet.m_Set]
  /\ UNCHANGED <<other, itemStatus, checkedIterators,
                 driverVars, lrVars, llVars, pvVars, fnVars, laVars>>

\* The production vector after a call that did or did not call
\* grammar.calculateFIRST().
GrammarAfter(usedFIRST) ==
  /\ FIRST' = IF usedFIRST THEN FirstAfterCalculate ELSE FIRST
  /\ m_CalculatedFIRST' = (m_CalculatedFIRST \/ usedFIRST)
  /\ firstCurrent' = (firstCurrent \/ (usedFIRST /\ ~m_CalculatedFIRST))
  /\ UNCHANGED <<p_Vector, FOLLOW, m_CalculatedFOLLOW, lastOp, thrown, followCurrent>>

\* itemSet.CLOSURE(&grammar)
CallCLOSURE ==
  /\ itemStatus = "ok"
  /\ \E r \in {CLOSURE(itemSet, p_Vector, FirstAfterCalculate, checkedIterators)} :
       /\ itemSet' = r.set
       /\ returned' = r.ret
       /\ itemStatus' \in StatusAfter(r.status)
       /\ GrammarAfter(r.usedFIRST)
  /\ itemOp' = [name |-> "CLOSURE", arg |-> <<>>, before |-> itemSet.m_Set]
  /\ UNCHANGED <<other, checkedIterators, driverVars, lrVars, llVars, fnVars, laVars>>

\* itemSet.GOTO(symbol, &grammar)
CallGOTO ==
  /\ itemStatus = "ok"
  /\ \E symbol \in GotoSymbols :
       /\ \E r \in {GOTO(itemSet, symbol, p_Vector, FirstAfterCalculate, checkedIterators)} :
            /\ itemSet' = r.set
            /\ returned' = r.ret
            /\ itemStatus' \in StatusAfter(r.status)
            /\ GrammarAfter(r.usedFIRST)
       /\ itemOp' = [name |-> "GOTO", arg |-> symbol, before |-> itemSet.m_Set]
  /\ UNCHANGED <<other, checkedIterators, driverVars, lrVars, llVars, fnVars, laVars>>

\* CLOSURE called on the item set GOTO returned; itemOp keeps that set in
\* arg.
ClosureOfGoto ==
  /\ itemStatus = "ok" /\ itemOp.name = "GOTO"
  /\ \E r \in {CLOSURE(returned, p_Vector, FirstAfterCalculate, checkedIterators)} :
       /\ returned' = r.ret
       /\ itemOp' = [name |-> "CLOSURE(GOTO)", arg |-> returned, before |-> <<>>]
       /\ itemStatus' \in StatusAfter(r.status)
       /\ GrammarAfter(r.usedFIRST)
  /\ UNCHANGED <<itemSet, other, checkedIterators, driverVars, lrVars, llVars, fnVars, laVars>>

\* itemSet == other
CompareItemSets ==
  /\ itemStatus = "ok"
  /\ returned' = ItemSetEquals(itemSet, other)
  /\ itemOp' = [name |-> "operator==", arg |-> <<>>, before |-> <<>>]
  /\ UNCHANGED <<itemSet, other, itemStatus, checkedIterators,
                 driverVars, lrVars, llVars, pvVars, fnVars, laVars>>

NextIS ==
  \/ InsertItem \/ InsertItemOther \/ MergeOther \/ CallCLOSURE \/ CallGOTO
  \/ ClosureOfGoto \/ CompareItemSets

SpecIS == InitIS /\ [][NextIS]_vars

(***************************************************************************)
(* Items of productions whose bodies hold action records.                  *)
(***************************************************************************)
MaxBody == 3

\* The elements of the bodies: id, T and an action record.
ItemElements == {GS(T_ID), GS(NT_T), ActRecord}

\* The productions a client constructs items of: E -> body.
ItemProductions ==
  { Prod(NT_E, body) : body \in UNION { [1 .. n -> ItemElements] : n \in 1 .. MaxBody } }

\* No item was constructed.
InitItem ==
  /\ IdleDriver /\ IdleLR /\ IdleLL /\ IdlePV /\ IdleIS /\ IdleSym /\ IdleFSM /\ IdleLA /\ IdleEC

\* ItemT{production, dotPosition}
ConstructItem ==
  /\ \E production \in ItemProductions, dotPosition \in 0 .. MaxBody + 1 :
       \E r \in {ItemConstructor(production, dotPosition, {})} :
         /\ returned' = IF r.status = "ok" THEN r.item ELSE returned
         /\ itemStatus' = r.status
         /\ itemOp' = [name |-> "Item", arg |-> dotPosition, before |-> <<>>]
  /\ UNCHANGED <<itemSet, other, checkedIterators,
                 driverVars, lrVars, llVars, pvVars, fnVars, laVars>>

\* The kernel item GOTO constructs of an item of the closure: the item is
\* skipped when production.size() is its actual dot position, the element
\* at that position is read with at(), and the kernel item is
\* ItemT{item.production, item.dotPos + 1, item.lookaheads}.
ConstructKernelItem ==
  /\ itemStatus = "ok" /\ itemOp.name \in {"Item", "GOTO"}
  /\ LET item == returned
         dotPos == getActualDotPosition(item)
         prodBody == item.production.prodBody
     IN /\ ProdSize(item.production) # dotPos
        /\ IF dotPos >= Len(prodBody)
           THEN /\ itemStatus' = "out_of_range"
                /\ UNCHANGED returned
                /\ itemOp' = [name |-> "GOTO", arg |-> item, before |-> <<>>]
           ELSE /\ prodBody[dotPos + 1].gramSymbol \in {T_ID, NT_T}
                /\ \E r \in {ItemConstructor(item.production, item.dotPos + 1,
                                              item.lookaheads)} :
                     /\ returned' = IF r.status = "ok" THEN r.item ELSE returned
                     /\ itemStatus' = r.status
                /\ itemOp' = [name |-> "GOTO", arg |-> item, before |-> <<>>]
  /\ UNCHANGED <<itemSet, other, checkedIterators,
                 driverVars, lrVars, llVars, pvVars, fnVars, laVars>>

NextItem == ConstructItem \/ ConstructKernelItem

SpecItem == InitItem /\ [][NextItem]_vars

(***************************************************************************)
(* GrammaticalSymbol: the comparison operators.                            *)
(***************************************************************************)
\* The largest enumerator index of the symbols compared.
MaxIndex == 3

\* A GrammaticalSymbol: isTerminal, and the union `as`, whose two members
\* share their storage: value is the enumerator index stored in it.  A
\* terminal and a non-terminal enumeration both count from 0 (the
\* enumerations of tests/ll parser.h do), so their indices coincide.
GrammaticalSymbols == [isTerminal : BOOLEAN, value : 0 .. MaxIndex]

\* GrammaticalSymbol::operator==(const GrammaticalSymbol&): isTerminal of
\* this chooses the member of the union that is read of both operands;
\* other.isTerminal is never read.  Both members are enumerations stored at
\* the same address, so the member read of `other` holds other's index.
SymbolEquals(this, that) ==
  IF this.isTerminal
  THEN this.value = that.value
  ELSE this.value = that.value

\* GrammaticalSymbol::operator<
SymbolLess(this, that) ==
  IF this.isTerminal # that.isTerminal
  THEN this.isTerminal
  ELSE IF this.isTerminal /\ that.isTerminal
  THEN this.value < that.value
  ELSE this.value < that.value

\* Two symbols, not yet compared.
InitSym ==
  /\ IdleDriver /\ IdleLR /\ IdleLL /\ IdlePV /\ IdleIS /\ IdleFSM /\ IdleLA /\ IdleEC
  /\ lhsSymbol \in GrammaticalSymbols /\ rhsSymbol \in GrammaticalSymbols
  /\ comparison = NoComparison

\* lhs == rhs, lhs < rhs and rhs < lhs are evaluated.
CompareSymbols ==
  /\ ~comparison.done
  /\ comparison' = [done |-> TRUE,
                    eq |-> SymbolEquals(lhsSymbol, rhsSymbol),
                    lt |-> SymbolLess(lhsSymbol, rhsSymbol),
                    gt |-> SymbolLess(rhsSymbol, lhsSymbol)]
  /\ UNCHANGED <<lhsSymbol, rhsSymbol, machine, fsmInput, fsmResult, nfaResult, ecVars,
                 driverVars, lrVars, llVars, pvVars, isVars, laVars>>

NextSym == CompareSymbols

SpecSym == InitSym /\ [][NextSym]_vars

(***************************************************************************)
(* The finite state machines: simulation in longest-prefix mode.           *)
(***************************************************************************)
\* The longest input a machine is simulated against.
MaxInput == 2

\* DeterFiniteAutomatan::DEAD_STATE and NonDeterFiniteAutomatan::DEAD_STATE
DEAD_STATE == 0
\* FiniteStateMachine::START_STATE
FSM_START_STATE == 1

\* size_t is unsigned and wraps.  The width is scaled down to SizeBits bits:
\* every index of the model is far below 2^SizeBits - 1, so a wrap happens
\* exactly where it happens with the width of the build.
SizeBits == 8
SizeModulus == 2 ^ SizeBits
SizeDec(n) == (n + SizeModulus - 1) % SizeModulus
SizeInc(n) == (n + 1) % SizeModulus

\* The states of the machines and the bytes of the inputs.  '\0', the byte
\* an epsilon transition is stored under, is no byte of an input.
FSMStates == {FSM_START_STATE, FSM_START_STATE + 1}
FSMChars == {"a", "b"}
FSMInputs == UNION { [1 .. k -> FSMChars] : k \in 0 .. MaxInput }

\* FSMTable: a set of states for every state and byte; epsilon holds the
\* entries for '\0'.  The entries of the table of a DFA hold one state at
\* most.  The constructor of FiniteStateMachine throws on an empty set of
\* final states.
NoEpsilon == [s \in FSMStates |-> {}]
DeterministicTables == [FSMStates \X FSMChars -> {{}} \cup {{q} : q \in FSMStates}]
FinalStateSets == SUBSET FSMStates \ {{}}
Machines ==
  [type : {"DFA"}, finalStates : FinalStateSets, table : DeterministicTables,
   epsilon : {NoEpsilon}]
  \cup [type : {"MT_NON_EPSILON_NFA"}, finalStates : FinalStateSets,
        table : [FSMStates \X FSMChars -> SUBSET FSMStates], epsilon : {NoEpsilon}]
  \cup [type : {"MT_EPSILON_NFA"}, finalStates : FinalStateSets,
        table : DeterministicTables, epsilon : [FSMStates -> SUBSET FSMStates]]

\* FSMStateSetType::operator FSMStateType: FSMStateType{} for the empty
\* set, else *begin(), the least state of the std::set.
StateOf(set) ==
  IF set = {} THEN 0 ELSE CHOOSE q \in set : \A r \in set : q <= r

\* TransitionFunction::operator()(const FSMStateSetType&, input)
TransitionOnSet(m, stateSet, c) == UNION { m.table[<<q, c>>] : q \in stateSet }

\* NonDeterFiniteAutomatan::_epsilon_closure
RECURSIVE epsilon_closure(_, _)
epsilon_closure(m, set) ==
  LET res == set \cup UNION { m.epsilon[q] : q \in set }
  IN IF res = set THEN set ELSE epsilon_closure(m, res)

\* FiniteStateMachine::_is_state_final
is_state_final(m, state) == \E q \in state : q \in m.finalStates

\* FiniteStateMachine::_get_final_states_from_state_set
get_final_states_from_state_set(m, state) == { q \in state : q \in m.finalStates }

\* _check_accepted_longest_prefix of both classes: the loop over
\* reverse_view{matchedStates}, from the element at position i down; then
\* `if (charIndex < 0) charIndex = 0`, which no size_t satisfies.
RECURSIVE check_accepted_longest_prefix(_, _, _, _)
check_accepted_longest_prefix(m, matchedStates, i, charIndex) ==
  IF i = 0
  THEN [accepted |-> FALSE, charIndex |-> IF charIndex < 0 THEN 0 ELSE charIndex]
  ELSE IF is_state_final(m, matchedStates[i])
  THEN [accepted |-> TRUE, charIndex |-> charIndex]
  ELSE check_accepted_longest_prefix(m, matchedStates, i - 1, SizeDec(charIndex))

\* The FSMResult both simulations build from the path and charIndex.
LongestPrefixResult(m, matchedStates, charIndex) ==
  LET chk == check_accepted_longest_prefix(m, matchedStates, Len(matchedStates),
                                           charIndex)
  IN [done |-> TRUE, mode |-> "MM_LONGEST_PREFIX",
      accepted |-> chk.accepted,
      finalState |-> get_final_states_from_state_set(m, matchedStates[Len(matchedStates)]),
      indecies |-> [start |-> 0,
                    end |-> IF chk.accepted THEN SizeInc(chk.charIndex) ELSE 0]]

\* The main loop of DeterFiniteAutomatan::_simulate_longest_prefix; the path
\* holds {q} for the state q.
RECURSIVE DFAPath(_, _, _, _, _)
DFAPath(m, in, charIndex, currState, matchedStates) ==
  IF charIndex < Len(in)
  THEN LET next == StateOf(m.table[<<currState, in[charIndex + 1]>>])
       IN IF next = DEAD_STATE
          THEN [matchedStates |-> matchedStates,
                charIndex |-> IF charIndex # 0 THEN SizeDec(charIndex) ELSE charIndex]
          ELSE DFAPath(m, in, charIndex + 1, next, Append(matchedStates, {next}))
  ELSE [matchedStates |-> matchedStates, charIndex |-> charIndex]

\* DeterFiniteAutomatan::_simulate_longest_prefix
DFA_simulate_longest_prefix(m, in) ==
  LET path == DFAPath(m, in, 0, FSM_START_STATE, <<{FSM_START_STATE}>>)
      charIndex == IF path.charIndex = Len(in) THEN SizeDec(path.charIndex)
                   ELSE path.charIndex
  IN LongestPrefixResult(m, path.matchedStates, charIndex)

\* The two loops of NonDeterFiniteAutomatan::_simulate_longest_prefix
RECURSIVE NFAPath(_, _, _, _)
NFAPath(m, in, charIndex, matchedStates) ==
  IF charIndex < Len(in)
  THEN LET back == matchedStates[Len(matchedStates)]
           moved == TransitionOnSet(m, back, in[charIndex + 1])
           next == IF m.type = "MT_NON_EPSILON_NFA" THEN moved
                   ELSE epsilon_closure(m, moved)
       IN NFAPath(m, in, charIndex + 1, Append(matchedStates, next))
  ELSE [matchedStates |-> matchedStates, charIndex |-> charIndex]

\* NonDeterFiniteAutomatan::_simulate_longest_prefix
NFA_simulate_longest_prefix(m, in) ==
  LET path == NFAPath(m, in, 0, <<{FSM_START_STATE}>>)
      charIndex == IF path.charIndex = Len(in) THEN SizeDec(Len(in))
                   ELSE path.charIndex
  IN LongestPrefixResult(m, path.matchedStates, charIndex)

\* FSM_MODE
FSM_MODES == {"MM_WHOLE_STRING", "MM_LONGEST_PREFIX", "MM_LONGEST_SUBSTRING"}

\* The loop of DeterFiniteAutomatan::_simulate_whole_string: the state it
\* leaves in currState, DEAD_STATE when the machine died.
RECURSIVE DFARun(_, _, _, _)
DFARun(m, in, i, currState) ==
  IF i > Len(in) THEN currState
  ELSE LET next == StateOf(m.table[<<currState, in[i]>>])
       IN IF next = DEAD_STATE THEN DEAD_STATE ELSE DFARun(m, in, i + 1, next)

\* DeterFiniteAutomatan::_simulate_whole_string
DFA_simulate_whole_string(m, in) ==
  LET currState == DFARun(m, in, 1, FSM_START_STATE)
      accepted == is_state_final(m, {currState})
  IN [done |-> TRUE, mode |-> "MM_WHOLE_STRING",
      accepted |-> accepted,
      finalState |-> IF accepted THEN {currState} ELSE {FSM_START_STATE},
      indecies |-> [start |-> 0, end |-> IF accepted THEN Len(in) ELSE 0]]

\* NonDeterFiniteAutomatan::_simulate_whole_string
NFA_simulate_whole_string(m, in) ==
  LET currState == NFAPath(m, in, 0, <<{FSM_START_STATE}>>).matchedStates[Len(in) + 1]
      finalStates == get_final_states_from_state_set(m, currState)
      accepted == finalStates # {}
  IN [done |-> TRUE, mode |-> "MM_WHOLE_STRING",
      accepted |-> accepted,
      finalState |-> finalStates,
      indecies |-> [start |-> 0, end |-> IF accepted THEN Len(in) ELSE 0]]

\* The loop of DeterFiniteAutomatan::_check_accepted_substring, and the
\* `if (charIndex == input.size()) charIndex--` after it.
RECURSIVE DFASubstringPath(_, _, _, _, _)
DFASubstringPath(m, in, charIndex, currState, matchedStates) ==
  IF charIndex < Len(in)
  THEN LET next == StateOf(m.table[<<currState, in[charIndex + 1]>>])
       IN IF next = DEAD_STATE
          THEN [matchedStates |-> matchedStates,
                charIndex |-> IF SizeDec(charIndex) = Len(in)
                              THEN SizeDec(SizeDec(charIndex)) ELSE SizeDec(charIndex)]
          ELSE DFASubstringPath(m, in, charIndex + 1, next, Append(matchedStates, {next}))
  ELSE [matchedStates |-> matchedStates, charIndex |-> SizeDec(charIndex)]

\* DeterFiniteAutomatan::_check_accepted_substring: matchedStates and
\* charIndex are references; _check_accepted_longest_prefix is given the
\* local endIndex, so charIndex stays the index of the last byte walked.
DFA_check_accepted_substring(m, in, matchedStates, startIndex) ==
  LET path == DFASubstringPath(m, in, startIndex, FSM_START_STATE, matchedStates)
      endIndex == (Len(path.matchedStates) + startIndex) % SizeModulus
  IN [matchedStates |-> path.matchedStates,
      charIndex |-> path.charIndex,
      accepted |-> check_accepted_longest_prefix(m, path.matchedStates,
                                                 Len(path.matchedStates), endIndex).accepted]

\* The body of the lambda matchInput of
\* NonDeterFiniteAutomatan::_check_accepted_substring: it returns at an
\* empty set of states, before the test of charIndex against input.size().
RECURSIVE NFASubstringPath(_, _, _, _)
NFASubstringPath(m, in, charIndex, matchedStates) ==
  IF charIndex < Len(in)
  THEN LET moved == TransitionOnSet(m, matchedStates[Len(matchedStates)], in[charIndex + 1])
           currStateSet == IF m.type = "MT_NON_EPSILON_NFA" THEN moved
                           ELSE epsilon_closure(m, moved)
       IN IF currStateSet = {}
          THEN [matchedStates |-> matchedStates, charIndex |-> SizeDec(charIndex)]
          ELSE NFASubstringPath(m, in, charIndex + 1, Append(matchedStates, currStateSet))
  ELSE [matchedStates |-> matchedStates, charIndex |-> SizeDec(charIndex)]

\* NonDeterFiniteAutomatan::_check_accepted_substring:
\* _check_accepted_longest_prefix is given the reference charIndex.
NFA_check_accepted_substring(m, in, matchedStates, startIndex) ==
  LET path == NFASubstringPath(m, in, startIndex, matchedStates)
      chk == check_accepted_longest_prefix(m, path.matchedStates,
                                           Len(path.matchedStates), path.charIndex)
  IN [matchedStates |-> path.matchedStates,
      charIndex |-> chk.charIndex,
      accepted |-> chk.accepted]

\* The substring `accepted` found from startIndex, under the engine of m.
CheckAcceptedSubstring(m, in, matchedStates, startIndex) ==
  IF m.type = "DFA"
  THEN DFA_check_accepted_substring(m, in, matchedStates, startIndex)
  ELSE NFA_check_accepted_substring(m, in, matchedStates, startIndex)

\* NonDeterFiniteAutomatan::_record_matched_substrings, and the same loop
\* in DeterFiniteAutomatan::_simulate_longest_substring: the substrings
\* recorded and matchedStates as the loop leaves it.
RECURSIVE record_matched_substrings(_, _, _, _, _)
record_matched_substrings(m, in, start, matchedStates, substrings) ==
  IF start < Len(in)
  THEN LET chk == CheckAcceptedSubstring(m, in, matchedStates, start)
           recorded == Append(substrings,
                              [matchedStates |-> chk.matchedStates,
                               indecies |-> [start |-> start,
                                             end |-> SizeInc(chk.charIndex)]])
       IN IF chk.accepted
          THEN IF Len(in) - start < Len(chk.matchedStates)
               THEN [substrings |-> recorded, matchedStates |-> chk.matchedStates]
               ELSE record_matched_substrings(m, in, start + 1,
                                              <<chk.matchedStates[1]>>, recorded)
          ELSE record_matched_substrings(m, in, start + 1,
                                         <<chk.matchedStates[1]>>, substrings)
  ELSE [substrings |-> substrings, matchedStates |-> matchedStates]

\* `if (data.size() > size) { longest = &data; size = longest->size(); }`
\* over the substrings in the order given: the index of `longest`, 0 for
\* nullptr.  Substring::size() is matchedStates.size().
RECURSIVE LongestFrom(_, _, _, _)
LongestFrom(substrings, order, longest, size) ==
  IF order = <<>> THEN longest
  ELSE IF Len(substrings[Head(order)].matchedStates) > size
  THEN LongestFrom(substrings, Tail(order), Head(order),
                   Len(substrings[Head(order)].matchedStates))
  ELSE LongestFrom(substrings, Tail(order), longest, size)

\* DeterFiniteAutomatan::_simulate_longest_substring: the substrings are
\* visited through a reverse_view.
DFA_simulate_longest_substring(m, in) ==
  LET rec == record_matched_substrings(m, in, 0, <<{FSM_START_STATE}>>, <<>>)
      n == Len(rec.substrings)
      longest == LongestFrom(rec.substrings, [i \in 1 .. n |-> n + 1 - i], 0, 0)
  IN IF n # 0
     THEN [done |-> TRUE, mode |-> "MM_LONGEST_SUBSTRING",
           accepted |-> TRUE,
           finalState |-> rec.matchedStates[Len(rec.matchedStates)],
           indecies |-> rec.substrings[longest].indecies]
     ELSE [done |-> TRUE, mode |-> "MM_LONGEST_SUBSTRING",
           accepted |-> FALSE, finalState |-> {FSM_START_STATE},
           indecies |-> [start |-> 0, end |-> 0]]

\* NonDeterFiniteAutomatan::_get_longest_substring_from_matched_sets: the
\* substrings are visited first to last.
get_longest_substring_from_matched_sets(m, substrings) ==
  LET longest == LongestFrom(substrings, [i \in 1 .. Len(substrings) |-> i], 0, 0)
      currState == substrings[longest].matchedStates[Len(substrings[longest].matchedStates)]
  IN [done |-> TRUE, mode |-> "MM_LONGEST_SUBSTRING",
      accepted |-> TRUE,
      finalState |-> get_final_states_from_state_set(m, currState),
      indecies |-> substrings[longest].indecies]

\* NonDeterFiniteAutomatan::_simulate_longest_substring
NFA_simulate_longest_substring(m, in) ==
  LET rec == record_matched_substrings(m, in, 0, <<{FSM_START_STATE}>>, <<>>)
  IN IF Len(rec.substrings) # 0
     THEN get_longest_substring_from_matched_sets(m, rec.substrings)
     ELSE [done |-> TRUE, mode |-> "MM_LONGEST_SUBSTRING",
           accepted |-> FALSE, finalState |-> {},
           indecies |-> [start |-> 0, end |-> 0]]

\* DeterFiniteAutomatan::simulate
DFA_simulate(m, in, mode) ==
  CASE mode = "MM_WHOLE_STRING" -> DFA_simulate_whole_string(m, in)
    [] mode = "MM_LONGEST_PREFIX" -> DFA_simulate_longest_prefix(m, in)
    [] mode = "MM_LONGEST_SUBSTRING" -> DFA_simulate_longest_substring(m, in)

\* NonDeterFiniteAutomatan::simulate
NFA_simulate(m, in, mode) ==
  CASE mode = "MM_WHOLE_STRING" -> NFA_simulate_whole_string(m, in)
    [] mode = "MM_LONGEST_PREFIX" -> NFA_simulate_longest_prefix(m, in)
    [] mode = "MM_LONGEST_SUBSTRING" -> NFA_simulate_longest_substring(m, in)

\* A machine and an input, not yet simulated.
InitFSM ==
  /\ IdleDriver /\ IdleLR /\ IdleLL /\ IdlePV /\ IdleIS /\ IdleSym /\ IdleLA /\ IdleEC
  /\ machine \in Machines /\ fsmInput \in FSMInputs
  /\ fsmResult = NoFSMResult /\ nfaResult = NoFSMResult

\* dfa.simulate(input, mode)
DFASimulate ==
  /\ ~fsmResult.done /\ machine.type = "DFA"
  /\ \E mode \in FSM_MODES : fsmResult' = DFA_simulate(machine, fsmInput, mode)
  /\ UNCHANGED <<machine, fsmInput, nfaResult, lhsSymbol, rhsSymbol, comparison, ecVars,
                 driverVars, lrVars, llVars, pvVars, isVars, laVars>>

\* nfa.simulate(input, mode)
NFASimulate ==
  /\ ~fsmResult.done /\ machine.type # "DFA"
  /\ \E mode \in FSM_MODES : fsmResult' = NFA_simulate(machine, fsmInput, mode)
  /\ UNCHANGED <<machine, fsmInput, nfaResult, lhsSymbol, rhsSymbol, comparison, ecVars,
                 driverVars, lrVars, llVars, pvVars, isVars, laVars>>

\* The typed tests of tests/fsm.h: the table, the final states, the input
\* and the mode given to the DFA are given to the NFA engine, as a machine
\* of either type.
NFASimulateSame ==
  /\ fsmResult.done /\ ~nfaResult.done /\ machine.type = "DFA"
  /\ \E type \in {"MT_NON_EPSILON_NFA", "MT_EPSILON_NFA"} :
       nfaResult' = NFA_simulate([machine EXCEPT !.type = type], fsmInput, fsmResult.mode)
  /\ UNCHANGED <<machine, fsmInput, fsmResult, lhsSymbol, rhsSymbol, comparison, ecVars,
                 driverVars, lrVars, llVars, pvVars, isVars, laVars>>

NextFSM == DFASimulate \/ NFASimulate \/ NFASimulateSame

SpecFSM == InitFSM /\ [][NextFSM]_vars

(***************************************************************************)
(* _epsilon_closure, one iteration of its loop at a time.                  *)
(***************************************************************************)
\* The states of the epsilon-NFAs whose closures are computed.
ClosureStates == {FSM_START_STATE, FSM_START_STATE + 1, FSM_START_STATE + 2}

\* The states of a std::set in the order a range-for visits them.
RECURSIVE InOrder(_)
InOrder(set) ==
  IF set = {} THEN <<>>
  ELSE LET least == CHOOSE q \in set : \A r \in set : q <= r
       IN <<least>> \o InOrder(set \ {least})

\* A loop that pushes nothing.
PushNothing(stack, res, epsilonTransitions) == stack

\* for (state : epsilonTransitions) if (!res.contains(state)) stack.push(state)
PushUnvisited(stack, res, epsilonTransitions) ==
  stack \o InOrder(epsilonTransitions \ res)

\* An epsilon-NFA with any epsilon moves, cycles among them, and the
\* argument of _epsilon_closure.
InitEC ==
  /\ IdleDriver /\ IdleLR /\ IdleLL /\ IdlePV /\ IdleIS /\ IdleSym /\ IdleLA
  /\ machine \in [type : {"MT_EPSILON_NFA"}, finalStates : {{FSM_START_STATE}},
                  table : {[e \in ClosureStates \X FSMChars |-> {}]},
                  epsilon : [ClosureStates -> SUBSET ClosureStates]]
  /\ fsmInput = <<>> /\ fsmResult = NoFSMResult /\ nfaResult = NoFSMResult
  /\ closureOf \in SUBSET ClosureStates
  /\ closureRes = {} /\ closureStack = <<>> /\ closurePc = "idle"

\* _epsilon_closure(set) up to its loop: res{set}, and every state of set
\* pushed.
EpsilonClosureCall ==
  /\ closurePc = "idle"
  /\ closureRes' = closureOf
  /\ closureStack' = InOrder(closureOf)
  /\ closurePc' = "loop"
  /\ UNCHANGED <<closureOf, machine, fsmInput, fsmResult, nfaResult, lhsSymbol,
                 rhsSymbol, comparison, driverVars, lrVars, llVars, pvVars, isVars,
                 laVars>>

\* One iteration of while (stack.size()).
EpsilonClosureStep ==
  /\ closurePc = "loop" /\ Len(closureStack) > 0
  /\ LET s == closureStack[Len(closureStack)]
         popped == PopBack(closureStack)
         epsilonTransitions == machine.epsilon[s]
     IN IF epsilonTransitions # {}
        THEN /\ closureStack' = PushUnvisited(popped, closureRes, epsilonTransitions)
             /\ closureRes' = closureRes \cup epsilonTransitions
        ELSE /\ closureStack' = popped
             /\ UNCHANGED closureRes
  /\ UNCHANGED <<closureOf, closurePc, machine, fsmInput, fsmResult, nfaResult,
                 lhsSymbol, rhsSymbol, comparison, driverVars, lrVars, llVars, pvVars,
                 isVars, laVars>>

\* The loop ends and res is returned.
EpsilonClosureReturn ==
  /\ closurePc = "loop" /\ Len(closureStack) = 0
  /\ closurePc' = "returned"
  /\ UNCHANGED <<closureOf, closureRes, closureStack, machine, fsmInput, fsmResult,
                 nfaResult, lhsSymbol, rhsSymbol, comparison, driverVars, lrVars,
                 llVars, pvVars, isVars, laVars>>

NextEC == EpsilonClosureCall \/ EpsilonClosureStep \/ EpsilonClosureReturn

SpecEC == InitEC /\ [][NextEC]_vars

\* The function runs on once called: no iteration waits for anything.
FairSpecEC == SpecEC /\ WF_vars(NextEC)

(***************************************************************************)
(* LexicalAnalyzer.                                                        *)
(***************************************************************************)
\* The longest source and the most calls made on one analyzer.
MaxSource == 3
MaxCalls == 2

\* LA_FLAG
LAF_DEFAULT == 0
LAF_ALLOW_WHITE_SPACE_CHARS == 1
LAF_ALLOW_NEW_LINE == 2
\* flags & flag
HasFlag(flags, flag) == (flags \div flag) % 2 = 1
LAFlags == {LAF_DEFAULT, LAF_ALLOW_WHITE_SPACE_CHARS, LAF_ALLOW_NEW_LINE}

\* The bytes of the sources.  The view m_SourceCode is followed by '\0' in
\* memory, as the view of a literal or of a std::string is ("null marks the
\* EOF").
LAChars == {" ", "\n", "a", "b"}
LASources == UNION { [1 .. k -> LAChars] : k \in 0 .. MaxSource }
\* std::isspace
IsSpace(c) == c \in {" ", "\n"}

\* A table that holds `entries` and the empty set of states elsewhere.
LATable(entries) ==
  [k \in FSMStates \X LAChars |-> IF k \in DOMAIN entries THEN entries[k] ELSE {}]

\* The automata the analyzers are constructed with: /a+/ (initTranFn_a of
\* tests/universal.h), /a( |a)*/, whose lexemes hold whitespace, and /(ab)*/,
\* whose start state is final.
LexerAutomata ==
  { [type |-> "DFA", finalStates |-> {2}, epsilon |-> NoEpsilon,
     table |-> LATable(<<1, "a">> :> {2} @@ <<2, "a">> :> {2})],
    [type |-> "DFA", finalStates |-> {2}, epsilon |-> NoEpsilon,
     table |-> LATable(<<1, "a">> :> {2} @@ <<2, "a">> :> {2} @@ <<2, " ">> :> {2})],
    [type |-> "DFA", finalStates |-> {1}, epsilon |-> NoEpsilon,
     table |-> LATable(<<1, "a">> :> {2} @@ <<2, "b">> :> {1})] }

\* The members of the analyzer the operations read and write.
Analyzer == [m_SourceCode |-> m_SourceCode, m_Line |-> m_Line, m_Col |-> m_Col]

\* LexicalAnalyzerResult{}
NoToken == [state |-> 0, lexeme |-> <<>>]
DefaultResult == [foundToken |-> FALSE, token |-> NoToken,
                  indecies |-> [start |-> 0, end |-> 0], lineNumber |-> 0]

\* LexicalAnalyzer::_remove_whitespace_prefix: *m_SourceCode.data() is the
\* first byte of the view, or the '\0' that follows an empty view.
RECURSIVE remove_whitespace_prefix(_, _)
remove_whitespace_prefix(la, flags) ==
  LET currChar == IF la.m_SourceCode = <<>> THEN "\\0" ELSE la.m_SourceCode[1]
      isWhiteSpace == IsSpace(currChar) /\ currChar # "\\0"
      matchNewLine == currChar = "\n" /\ HasFlag(flags, LAF_ALLOW_NEW_LINE)
  IN IF ~isWhiteSpace THEN la
     ELSE remove_whitespace_prefix(
            [m_SourceCode |-> Tail(la.m_SourceCode),
             m_Line |-> IF matchNewLine THEN la.m_Line + 1 ELSE la.m_Line,
             m_Col |-> IF matchNewLine THEN 0 ELSE la.m_Col + 1], flags)

\* LexicalAnalyzer::_check_source_code_empty
check_source_code_empty(la) == la.m_SourceCode = <<>>

\* LexicalAnalyzer::_check_presearch_conditions: the analyzer as it leaves
\* it, and what it returns.
check_presearch_conditions(la, flags) ==
  LET stripped == IF ~HasFlag(flags, LAF_ALLOW_WHITE_SPACE_CHARS)
                  THEN remove_whitespace_prefix(la, flags) ELSE la
  IN [la |-> stripped, ok |-> ~check_source_code_empty(stripped)]

\* LexicalAnalyzerResult(fsmres, lineNumber, colNumber, factory): the token
\* the factory is asked for is the pair of its arguments,
\* (FSMStateType)fsmres.finalState and fsmres.getMatch().
ResultOf(fsmres, in, lineNumber, colNumber) ==
  [foundToken |-> TRUE,
   token |-> [state |-> StateOf(fsmres.finalState),
              lexeme |-> SubSeq(in, fsmres.indecies.start + 1, fsmres.indecies.end)],
   indecies |-> [start |-> fsmres.indecies.start + colNumber,
                 end |-> fsmres.indecies.end + colNumber],
   lineNumber |-> lineNumber]

\* getNextToken that erases one byte more than the lexeme.
getNextTokenErasingMore(m, la, flags) ==
  LET pre == check_presearch_conditions(la, flags)
      fsmRes == DFA_simulate_longest_prefix(m, pre.la.m_SourceCode)
      lexemeSize == fsmRes.indecies.end - fsmRes.indecies.start
  IN IF ~pre.ok \/ ~fsmRes.accepted
     THEN [la |-> pre.la, stripped |-> pre.la, res |-> DefaultResult]
     ELSE [la |-> [pre.la EXCEPT !.m_Col = @ + lexemeSize,
                                 !.m_SourceCode = SubSeq(@, lexemeSize + 2, Len(@))],
           stripped |-> pre.la,
           res |-> ResultOf(fsmRes, pre.la.m_SourceCode, pre.la.m_Line, pre.la.m_Col)]

\* getNextToken that erases the byte the automaton died on.
getNextTokenErasingUnmatched(m, la, flags) ==
  LET pre == check_presearch_conditions(la, flags)
      fsmRes == DFA_simulate_longest_prefix(m, pre.la.m_SourceCode)
      lexemeSize == fsmRes.indecies.end - fsmRes.indecies.start
  IN IF ~pre.ok
     THEN [la |-> pre.la, stripped |-> pre.la, res |-> DefaultResult]
     ELSE IF ~fsmRes.accepted
     THEN [la |-> [pre.la EXCEPT !.m_Col = @ + 1, !.m_SourceCode = Tail(@)],
           stripped |-> pre.la, res |-> DefaultResult]
     ELSE [la |-> [pre.la EXCEPT !.m_Col = @ + lexemeSize,
                                 !.m_SourceCode = SubSeq(@, lexemeSize + 1, Len(@))],
           stripped |-> pre.la,
           res |-> ResultOf(fsmRes, pre.la.m_SourceCode, pre.la.m_Line, pre.la.m_Col)]

\* peak that does not strip the whitespace.
peakKeepingWhitespace(m, la, flags) ==
  LET fsmRes == DFA_simulate_longest_prefix(m, la.m_SourceCode)
  IN [la |-> la, stripped |-> la,
      res |-> IF check_source_code_empty(la) \/ ~fsmRes.accepted THEN DefaultResult
              ELSE ResultOf(fsmRes, la.m_SourceCode, la.m_Line, la.m_Col)]

\* LexicalAnalyzer::getNextToken: the analyzer after the call, the analyzer
\* as _check_presearch_conditions left it, and the result.  The automaton
\* is a DFA; simulate(m_SourceCode, MM_LONGEST_PREFIX) is its
\* _simulate_longest_prefix.
getNextToken(m, la, flags) ==
  LET pre == check_presearch_conditions(la, flags)
      fsmRes == DFA_simulate_longest_prefix(m, pre.la.m_SourceCode)
      lexemeSize == fsmRes.indecies.end - fsmRes.indecies.start
  IN IF ~pre.ok
     THEN [la |-> pre.la, stripped |-> pre.la, res |-> DefaultResult]
     ELSE IF ~fsmRes.accepted
     THEN [la |-> pre.la, stripped |-> pre.la, res |-> DefaultResult]
     ELSE [la |-> [pre.la EXCEPT !.m_Col = @ + lexemeSize,
                                 !.m_SourceCode = SubSeq(@, lexemeSize + 1, Len(@))],
           stripped |-> pre.la,
           res |-> ResultOf(fsmRes, pre.la.m_SourceCode, pre.la.m_Line, pre.la.m_Col)]

\* LexicalAnalyzer::peak
peak(m, la, flags) ==
  LET pre == check_presearch_conditions(la, flags)
      fsmRes == DFA_simulate_longest_prefix(m, pre.la.m_SourceCode)
  IN IF ~pre.ok
     THEN [la |-> pre.la, stripped |-> pre.la, res |-> DefaultResult]
     ELSE IF ~fsmRes.accepted
     THEN [la |-> pre.la, stripped |-> pre.la, res |-> DefaultResult]
     ELSE [la |-> pre.la, stripped |-> pre.la,
           res |-> ResultOf(fsmRes, pre.la.m_SourceCode, pre.la.m_Line, pre.la.m_Col)]

\* LexicalAnalyzer(automaton, tokenFactory, sourceCode)
InitLA ==
  /\ IdleDriver /\ IdleLR /\ IdleLL /\ IdlePV /\ IdleIS /\ IdleSym /\ IdleEC
  /\ machine \in LexerAutomata
  /\ fsmInput = <<>> /\ fsmResult = NoFSMResult /\ nfaResult = NoFSMResult
  /\ sourceCode \in LASources
  /\ m_SourceCode = sourceCode /\ m_Line = 0 /\ m_Col = 0
  /\ calls = <<>>

\* What a call leaves behind.
Called(op, flags, r) ==
  /\ m_SourceCode' = r.la.m_SourceCode
  /\ m_Line' = r.la.m_Line
  /\ m_Col' = r.la.m_Col
  /\ calls' = Append(calls, [op |-> op, flags |-> flags, before |-> Analyzer,
                             stripped |-> r.stripped, res |-> r.res, after |-> r.la])
  /\ UNCHANGED <<sourceCode, fnVars, driverVars, lrVars, llVars, pvVars, isVars>>

\* la.getNextToken(flags)
CallGetNextToken ==
  /\ Len(calls) < MaxCalls
  /\ \E flags \in LAFlags :
       \E r \in {getNextToken(machine, Analyzer, flags)} : Called("getNextToken", flags, r)

\* la.peak(flags)
CallPeak ==
  /\ Len(calls) < MaxCalls
  /\ \E flags \in LAFlags :
       \E r \in {peak(machine, Analyzer, flags)} : Called("peak", flags, r)

NextLA == CallGetNextToken \/ CallPeak

SpecLA == InitLA /\ [][NextLA]_vars

\* t is s without a prefix of whitespace.
WhitespaceStripped(s, t) ==
  \E n \in 0 .. Len(s) :
    /\ t = SubSeq(s, n + 1, Len(s))
    /\ \A i \in 1 .. n : IsSpace(s[i])

\* The configuration of the machine after the bytes of s: the subset
\* construction, from the epsilon closure of the start state.
RECURSIVE ConfigurationAfter(_, _)
ConfigurationAfter(m, s) ==
  IF s = <<>>
  THEN epsilon_closure(m, {FSM_START_STATE})
  ELSE epsilon_closure(m, TransitionOnSet(m, ConfigurationAfter(m, SubSeq(s, 1, Len(s) - 1)),
                                          s[Len(s)]))

\* The machine accepts s[0..k).
AcceptsPrefix(m, s, k) ==
  ConfigurationAfter(m, SubSeq(s, 1, k)) \cap m.finalStates # {}

\* The machine accepts s[from..to).
AcceptsSubstring(m, s, from, to) ==
  ConfigurationAfter(m, SubSeq(s, from + 1, to)) \cap m.finalStates # {}

\* The spans of the accepted substrings of s.
AcceptedSubstrings(m, s) ==
  { span \in [start : 0 .. Len(s), end : 0 .. Len(s)] :
      span.start <= span.end /\ AcceptsSubstring(m, s, span.start, span.end) }

\* The spans of the longest accepted substrings of s.
LongestAcceptedSubstrings(m, s) ==
  { span \in AcceptedSubstrings(m, s) :
      \A longer \in AcceptedSubstrings(m, s) :
        longer.end - longer.start <= span.end - span.start }

\* The ends k of the accepted prefixes of s.
AcceptedPrefixes(m, s) == { k \in 0 .. Len(s) : AcceptsPrefix(m, s, k) }
LongestAcceptedPrefix(m, s) ==
  CHOOSE k \in AcceptedPrefixes(m, s) : \A j \in AcceptedPrefixes(m, s) : j <= k

(***************************************************************************)
(* Derivations, and FIRST of a string of symbols, as the properties below  *)
(* use them.                                                               *)
(***************************************************************************)
\* The grammar symbols of a production body, without records and EPSILON.
BodySymbols(prod) ==
  LET kept == SelectSeq(prod.prodBody,
                        LAMBDA e : e.type = "PET_GRAM_SYMBOL" /\ e.gramSymbol # EPSILON)
  IN [i \in 1 .. Len(kept) |-> kept[i].gramSymbol]

NoForm == <<-1>>

Rewrite(form, k, prod) ==
  IF prod.prodHead # form[k]
  THEN NoForm
  ELSE SubSeq(form, 1, k - 1) \o BodySymbols(prod) \o SubSeq(form, k + 1, Len(form))

VariablePositions(form) == { k \in 1 .. Len(form) : form[k] >= T_COUNT }

\* The sentential form reached from form by rewriting the rightmost
\* non-terminal with the productions seq[i], seq[i - 1], ..., seq[1].
RECURSIVE RightmostForm(_, _, _, _)
RightmostForm(prods, form, seq, i) ==
  IF i = 0 THEN form
  ELSE IF VariablePositions(form) = {} \/ seq[i] + 1 > Len(prods) THEN NoForm
  ELSE LET k == CHOOSE x \in VariablePositions(form) :
                  \A y \in VariablePositions(form) : y <= x
       IN RightmostForm(prods, Rewrite(form, k, prods[seq[i] + 1]), seq, i - 1)

\* The sentential form reached from form by rewriting the leftmost
\* non-terminal with the productions seq[i], seq[i + 1], ..., seq[Len(seq)].
RECURSIVE LeftmostForm(_, _, _, _)
LeftmostForm(prods, form, seq, i) ==
  IF i > Len(seq) THEN form
  ELSE IF VariablePositions(form) = {} \/ seq[i] + 1 > Len(prods) THEN NoForm
  ELSE LET k == CHOOSE x \in VariablePositions(form) :
                  \A y \in VariablePositions(form) : x <= y
       IN LeftmostForm(prods, Rewrite(form, k, prods[seq[i] + 1]), seq, i + 1)

\* The reductions of the parse, read in reverse, derive the source.
ReductionsDeriveInput ==
  RightmostForm(p_Vector, <<p_Vector[1].prodHead>>, reductions, Len(reductions)) = input

\* The expansions of the parse derive the source.
ExpansionsDeriveInput ==
  LeftmostForm(p_Vector, <<LLStartSymbol>>, expansions, 1) = input

\* FIRST of a non-terminal in a FIRST vector that may have been cleared.
FirstOf(F, symbol) ==
  IF IsTerminal(symbol) THEN {symbol}
  ELSE IF symbol \in DOMAIN F THEN F[symbol] ELSE {}

\* FIRST(X1 ... Xn) from position i on.
RECURSIVE StringFIRST(_, _, _)
StringFIRST(F, symbols, i) ==
  IF i > Len(symbols) THEN {EPSILON}
  ELSE LET f == FirstOf(F, symbols[i])
       IN IF EPSILON \in f
          THEN (f \ {EPSILON}) \cup StringFIRST(F, symbols, i + 1)
          ELSE f

AllBodySymbols(prod) ==
  LET kept == SelectSeq(prod.prodBody, LAMBDA e : e.type = "PET_GRAM_SYMBOL")
  IN [i \in 1 .. Len(kept) |-> kept[i].gramSymbol]

(***************************************************************************)
(* Properties.                                                             *)
(***************************************************************************)
\* C1: in an LR parse with panic mode recovery the recovered errors are
\* counted across the iterations of the main loop, so no parse recovers from
\* more errors than ERR_RECOVERY_LIMIT.
C1_RecoveriesWithinLimit ==
  ert = "ERT_PANIC_MODE" => recovered <= ERR_RECOVERY_LIMIT

\* C2: every LR parse runs to completion: the main loop is left, by accept
\* or by a failure, after finitely many iterations.
C2_ParseRunsToCompletion == (pc = "loop") ~> (pc # "loop")

\* C3: with the LR table of the expression grammar, the parse of `id +`
\* under panic mode recovery fails: the error is found at the end of the
\* source, recovery does not synchronize, and the source is not accepted.
C3_IdPlusFails ==
  (/\ tbl \in {"expr", "fixture"} /\ ert = "ERT_PANIC_MODE"
   /\ input = <<T_ID, T_PLUS>> /\ pc \notin {"idle", "loop"})
  => (pc # "accepted" /\ m_CurrInputToken = T_EOF)

\* C4: an LL parse returns normally only when its stack became empty while
\* the current token was the end of the source.  Stated for the parses in
\* which no error was detected, where it does not depend on error recovery.
C4_AcceptOnlyAtEOF == (pc = "returned" /\ recovered = 0) => exitToken = T_EOF

\* C5: when the LL driver finds an error entry for the popped non-terminal
\* and the current token while recovery is disabled, the parse neither goes
\* on nor returns normally.
C5_DisabledRecoveryPropagates ==
  [][(/\ pc = "loop" /\ ert = "ERT_NONE" /\ m_Stack # <<>>
      /\ LLTop.type = "PET_GRAM_SYMBOL" /\ ~IsTerminal(LLTop.gramSymbol)
      /\ LLEntry.isError)
     => pc' \notin {"loop", "returned"}]_vars

\* C6: every parse call starts from the initial configuration: when the
\* main loop is entered the stack holds the start symbol and nothing else,
\* whatever way the parse before it ended.
C6_ResetOnEntry ==
  [][(pc # "loop" /\ pc' = "loop") => m_Stack' = <<GS(LLStartSymbol)>>]_vars

\* C7: no step of a parse changes the grammar or the number of rows of the
\* action table or of the goto table.
C7_TablesReadOnly ==
  [][/\ p_Vector' = p_Vector
     /\ actionRows' = actionRows
     /\ gotoRows' = gotoRows]_vars

C9_LeftmostDerivation == (pc = "returned" /\ recovered = 0) => ExpansionsDeriveInput

\* C10: after calculateFIRST, for every production the FIRST set of its body
\* is contained in the FIRST set of its head.
C10_FirstOfBodyInFirstOfHead ==
  lastOp = "calculateFIRST"
  => \A i \in 1 .. Len(p_Vector) :
       StringFIRST(FIRST, AllBodySymbols(p_Vector[i]), 1)
         \subseteq FirstOf(FIRST, p_Vector[i].prodHead)

\* The non-terminals that derive the empty string: the least set holding the
\* head of every production whose body symbols are all EPSILON or in the set.
RECURSIVE NullableFrom(_, _)
NullableFrom(prods, known) ==
  LET more == { prods[i].prodHead : i \in { j \in 1 .. Len(prods) :
                  \A x \in { AllBodySymbols(prods[j])[k] :
                               k \in 1 .. Len(AllBodySymbols(prods[j])) } :
                    x = EPSILON \/ x \in known } }
  IN IF more \subseteq known THEN known ELSE NullableFrom(prods, known \cup more)

\* The string of symbols derives the empty string.
DerivesEpsilon(prods, symbols) ==
  \A k \in 1 .. Len(symbols) :
    symbols[k] = EPSILON \/ symbols[k] \in NullableFrom(prods, {})

\* The law of FOLLOW for the stored productions: nullable(beta) tells whether
\* the rest beta of a body is empty or derives EPSILON.
FollowLaw(nullable(_)) ==
  /\ END_MARKER \in FOLLOW[p_Vector[1].prodHead]
  /\ \A i \in 1 .. Len(p_Vector) :
       LET symbols == AllBodySymbols(p_Vector[i])
       IN \A k \in 1 .. Len(symbols) :
            ~IsTerminal(symbols[k])
            => LET beta == SubSeq(symbols, k + 1, Len(symbols))
               IN /\ StringFIRST(FIRST, beta, 1) \ {EPSILON} \subseteq FOLLOW[symbols[k]]
                  /\ nullable(beta) => FOLLOW[p_Vector[i].prodHead] \subseteq FOLLOW[symbols[k]]

\* calculateFOLLOW returned true having computed FOLLOW, from a FIRST that
\* calculateFIRST computed, for the productions now stored.
FollowComputed ==
  lastOp = "calculateFOLLOW" /\ thrown = "none" /\ firstCurrent /\ followCurrent

\* EPSILON occurs in a body only as the single symbol of the body.
EpsilonOnlyAlone(prods) ==
  \A i \in 1 .. Len(prods) :
    \A k \in 1 .. Len(prods[i].prodBody) :
      prods[i].prodBody[k] = GS(EPSILON) => Len(prods[i].prodBody) = 1

C12_FollowLaw ==
  (FollowComputed /\ EpsilonOnlyAlone(p_Vector))
  => FollowLaw(LAMBDA beta : DerivesEpsilon(p_Vector, beta))

\* C13: a call of calculateFOLLOW made when FIRST has not been computed
\* from the productions now stored does not succeed: it throws the logic
\* error of the missing FIRST.
C13_FollowNeedsCurrentFirst ==
  (lastOp = "calculateFOLLOW" /\ ~firstCurrent) => thrown = "runtime_error"

\* The items of a vector of items, as a set.
ItemsOf(items) == { items[i] : i \in 1 .. Len(items) }

\* The symbol after the dot of a core <<production, dot>> is symbol.
DotBefore(core, symbol) ==
  /\ core[2] < Len(AllBodySymbols(core[1]))
  /\ AllBodySymbols(core[1])[core[2] + 1] = symbol

\* The least set of cores <<production, dot>> that holds cores and, with a
\* core whose dot is before a non-terminal B, the core <<B -> gamma, 0>> of
\* every production of B.
RECURSIVE CoreClosure(_, _)
CoreClosure(grammar, cores) ==
  LET more == { <<grammar[j], 0>> : j \in { k \in 1 .. Len(grammar) :
                  \E c \in cores : DotBefore(c, grammar[k].prodHead) } }
  IN IF more \subseteq cores THEN cores ELSE CoreClosure(grammar, cores \cup more)

\* The least set of <<production, dot, lookahead>> that holds triples and,
\* with [H -> alpha . B beta, a], the triple [B -> . gamma, b] of every
\* production of B and every b in FIRST(beta a).
RECURSIVE LookaheadClosure(_, _, _)
LookaheadClosure(grammar, F, triples) ==
  LET more == UNION { { <<grammar[j], 0, b>> :
                          b \in StringFIRST(F,
                                  Append(SubSeq(AllBodySymbols(t[1]), t[2] + 2,
                                                Len(AllBodySymbols(t[1]))), t[3]), 1) } :
                      <<t, j>> \in { <<u, k>> \in triples \X (1 .. Len(grammar)) :
                                       DotBefore(u, grammar[k].prodHead) } }
  IN IF more \subseteq triples THEN triples
     ELSE LookaheadClosure(grammar, F, triples \cup more)

\* CLOSURE of a set of items: one item for each core, with all the
\* lookaheads of the core.
TrueClosureOf(grammar, items) ==
  LET F == CalcFIRST(<<>>, grammar)
      cores == CoreClosure(grammar, { <<it.production, it.dotPos>> : it \in items })
      triples == LookaheadClosure(grammar, F,
                   UNION { { <<it.production, it.dotPos, a>> : a \in it.lookaheads } :
                           it \in items })
  IN { Item(c[1], c[2], { t[3] : t \in { u \in triples : u[1] = c[1] /\ u[2] = c[2] } }) :
       c \in cores }

TrueClosure(grammar, items) == TrueClosureOf(grammar, ItemsOf(items))

\* The items [H -> alpha X . beta, a] of the items [H -> alpha . X beta, a].
Advanced(items, symbol) ==
  { Item(it.production, it.dotPos + 1, it.lookaheads) :
    it \in { i \in items : DotBefore(<<i.production, i.dotPos>>, symbol) } }

\* C14: the set CLOSURE returns is the smallest set that holds the items of
\* the item set and, for every item [H -> alpha . B beta, a] of it and every
\* production B -> gamma, the item [B -> . gamma, b] for each b in
\* FIRST(beta a).
C14_ClosureIsLeastClosedSet ==
  (itemOp.name = "CLOSURE" /\ itemStatus = "ok")
  => ItemsOf(returned.m_Set) = TrueClosure(p_Vector, itemOp.before)

\* C15: the set GOTO(I, X) returns is the CLOSURE of the items
\* [H -> alpha X . beta, a] of the items [H -> alpha . X beta, a] of
\* CLOSURE(I), and of no other item.
C15_GotoIsClosureOfAdvanced ==
  (itemOp.name = "GOTO" /\ itemStatus = "ok")
  => ItemsOf(returned.m_Set)
       = TrueClosureOf(p_Vector, Advanced(TrueClosure(p_Vector, itemOp.before), itemOp.arg))

\* C16: CLOSURE applied to the item set GOTO(I, X) returned returns an item
\* set equal, by operator==, to that item set.
C16_ClosureOfGotoIsGoto ==
  (itemOp.name = "CLOSURE(GOTO)" /\ itemStatus = "ok")
  => ItemSetEquals(returned, itemOp.arg)

\* CLOSURE was applied to GOTO({[E -> . id T]}, id) = {[E -> id . T]}.
C16_Witness ==
  /\ itemOp.name = "CLOSURE(GOTO)" /\ itemStatus = "ok"
  /\ itemOp.arg.m_Set = <<Item(ItemGrammar[2], 1, {})>>
  /\ returned.m_Set = <<Item(ItemGrammar[2], 1, {})>>

\* No two items of the vector have the same production and dot.
NoDuplicateCores(items) ==
  \A i, j \in 1 .. Len(items) :
    (items[i].production = items[j].production /\ items[i].dotPos = items[j].dotPos)
    => i = j

\* The cores of the items of a vector, and the lookaheads the items of one
\* core have together.
CoresOf(items) == { <<it.production, it.dotPos>> : it \in ItemsOf(items) }
LookaheadsOf(items, core) ==
  UNION { it.lookaheads : it \in { i \in ItemsOf(items) :
                                     <<i.production, i.dotPos>> = core } }

\* C17: after any sequence of insert and merge no two items of an item set
\* have the same production and dot; an insert or a merge of an item whose
\* production and dot are present unions the lookaheads into the item that
\* is there and appends nothing.
C17_OneItemPerCore ==
  /\ NoDuplicateCores(itemSet.m_Set) /\ NoDuplicateCores(other.m_Set)
  /\ itemOp.name = "insert"
     => /\ CoresOf(itemSet.m_Set) = CoresOf(Append(itemOp.before, itemOp.arg))
        /\ \A c \in CoresOf(itemSet.m_Set) :
             LookaheadsOf(itemSet.m_Set, c)
               = LookaheadsOf(Append(itemOp.before, itemOp.arg), c)
  /\ itemOp.name = "merge"
     => /\ CoresOf(itemSet.m_Set) = CoresOf(itemOp.before \o other.m_Set)
        /\ \A c \in CoresOf(itemSet.m_Set) :
             LookaheadsOf(itemSet.m_Set, c)
               = LookaheadsOf(itemOp.before \o other.m_Set, c)

\* [E -> . id T, +] was merged into a set that held [E -> . id T]: the set
\* holds the one item [E -> . id T, +].
C17_Witness ==
  /\ itemOp.name = "merge"
  /\ itemOp.before = <<Item(ItemGrammar[2], 0, {})>>
  /\ other.m_Set = <<Item(ItemGrammar[2], 0, {T_PLUS})>>
  /\ itemSet.m_Set = <<Item(ItemGrammar[2], 0, {T_PLUS})>>

\* C18: two item sets compare equal exactly when they hold the same items,
\* in whatever order the items were inserted.
C18_EqualityIsSetEquality ==
  itemOp.name = "operator=="
  => (returned <=> ItemsOf(itemSet.m_Set) = ItemsOf(other.m_Set))


\* C19: symbol comparison is a total order consistent with structural
\* equality: of a < b, a == b and b < a exactly one holds, a == b holds
\* exactly when the two symbols have the same kind and the same enumerator,
\* a terminal orders before a non-terminal, and a terminal never compares
\* equal to a non-terminal, also when their enumerator indices coincide.
C19_TotalOrderWithStructuralEquality ==
  comparison.done =>
    /\ \/ comparison.lt /\ ~comparison.eq /\ ~comparison.gt
       \/ ~comparison.lt /\ comparison.eq /\ ~comparison.gt
       \/ ~comparison.lt /\ ~comparison.eq /\ comparison.gt
    /\ comparison.eq = (lhsSymbol = rhsSymbol)
    /\ (lhsSymbol.isTerminal /\ ~rhsSymbol.isTerminal) => comparison.lt
    /\ (lhsSymbol.isTerminal # rhsSymbol.isTerminal) => ~comparison.eq


\* C20: for every input s, the empty input and an input on whose first byte
\* the machine dies included, longest-prefix simulation returns the span
\* [0, k) for the largest k such that s[0..k) is accepted, and reports
\* not-accepted with the span [0, 0) when no prefix is accepted.
C20_LongestPrefixSpan ==
  (fsmResult.done /\ fsmResult.mode = "MM_LONGEST_PREFIX") =>
    IF AcceptedPrefixes(machine, fsmInput) = {}
    THEN ~fsmResult.accepted /\ fsmResult.indecies = [start |-> 0, end |-> 0]
    ELSE /\ fsmResult.accepted
         /\ fsmResult.indecies =
              [start |-> 0, end |-> LongestAcceptedPrefix(machine, fsmInput)]


\* C21: longest-substring simulation returns a span [s, e) such that
\* input[s..e) is itself accepted by the machine, and no accepted substring
\* of the input is longer than e - s.
C21_LongestSubstringAcceptedAndLongest ==
  (fsmResult.done /\ fsmResult.mode = "MM_LONGEST_SUBSTRING") =>
    /\ fsmResult.accepted => fsmResult.indecies \in AcceptedSubstrings(machine, fsmInput)
    /\ \A span \in AcceptedSubstrings(machine, fsmInput) :
         span.end - span.start <= fsmResult.indecies.end - fsmResult.indecies.start


\* C22: when several accepted substrings share the maximum length,
\* longest-substring simulation returns the one with the smallest start
\* offset, the first occurrence, in the DFA and in the NFA engine.
C22_TiesBrokenByFirstOccurrence ==
  (/\ fsmResult.done /\ fsmResult.mode = "MM_LONGEST_SUBSTRING"
   /\ Cardinality(LongestAcceptedSubstrings(machine, fsmInput)) > 1) =>
    /\ fsmResult.accepted
    /\ fsmResult.indecies \in LongestAcceptedSubstrings(machine, fsmInput)
    /\ \A span \in LongestAcceptedSubstrings(machine, fsmInput) :
         fsmResult.indecies.start <= span.start


\* C23: for every deterministic transition table (at most one successor per
\* state and byte, no epsilon moves), every set of final states, every
\* input and every simulation mode, the DFA engine and the NFA engine
\* return the same accepted flag and the same span.
C23_EnginesAgree ==
  nfaResult.done =>
    /\ nfaResult.accepted = fsmResult.accepted
    /\ nfaResult.indecies = fsmResult.indecies


\* C24: for every lexer state and every flag value, peek(flags) returns the
\* same result (found, token, span, line) as an immediately following
\* next(flags), and peek removes nothing from the remaining input except
\* leading whitespace.
C24_PeekAgreesWithNext ==
  /\ \A i \in 1 .. Len(calls) :
       calls[i].op = "peak" =>
         WhitespaceStripped(calls[i].before.m_SourceCode, calls[i].after.m_SourceCode)
  /\ \A i \in 1 .. Len(calls) - 1 :
       (/\ calls[i].op = "peak" /\ calls[i + 1].op = "getNextToken"
        /\ calls[i].flags = calls[i + 1].flags) =>
         calls[i + 1].res = calls[i].res

\* A peek that stripped whitespace and found a token, followed by next.
C24_Witness ==
  /\ Len(calls) = 2
  /\ calls[1].op = "peak" /\ calls[2].op = "getNextToken"
  /\ calls[1].flags = calls[2].flags
  /\ calls[1].res.foundToken
  /\ calls[1].after.m_SourceCode # calls[1].before.m_SourceCode
  /\ calls[2].after.m_SourceCode # calls[2].before.m_SourceCode


\* C25: when the FSM accepts no prefix of the remaining input, next returns
\* a not-found result and is non-destructive: the remaining input and the
\* (line, column) cursor are the same after the call as before it.
C25_NotFoundIsNonDestructive ==
  \A i \in 1 .. Len(calls) :
    (/\ calls[i].op = "getNextToken"
     /\ AcceptedPrefixes(machine, calls[i].before.m_SourceCode) = {}) =>
      /\ ~calls[i].res.foundToken
      /\ calls[i].after = calls[i].before

\* C25, amended: when the FSM accepts no prefix of the input that remains
\* once the whitespace policy was applied, next returns a not-found result
\* and removes nothing but the leading whitespace the policy strips: the
\* remaining input and the cursor are as the stripping left them, and under
\* LAF_ALLOW_WHITE_SPACE_CHARS they are the same as before the call.
C25_NotFoundKeepsAllButWhitespace ==
  \A i \in 1 .. Len(calls) :
    (/\ calls[i].op = "getNextToken"
     /\ AcceptedPrefixes(machine, calls[i].stripped.m_SourceCode) = {}) =>
      /\ ~calls[i].res.foundToken
      /\ calls[i].after = calls[i].stripped
      /\ WhitespaceStripped(calls[i].before.m_SourceCode, calls[i].after.m_SourceCode)
      /\ HasFlag(calls[i].flags, LAF_ALLOW_WHITE_SPACE_CHARS) =>
           calls[i].after = calls[i].before

\* next on whitespace followed by a byte the automaton dies on.
C25_Witness ==
  \E i \in 1 .. Len(calls) :
    /\ calls[i].op = "getNextToken"
    /\ calls[i].stripped.m_SourceCode # <<>>
    /\ calls[i].stripped.m_SourceCode # calls[i].before.m_SourceCode
    /\ AcceptedPrefixes(machine, calls[i].stripped.m_SourceCode) = {}
    /\ ~calls[i].res.foundToken


\* The lexemes of the calls, concatenated in call order.
RECURSIVE Lexemes(_)
Lexemes(cs) ==
  IF cs = <<>> THEN <<>> ELSE Head(cs).res.token.lexeme \o Lexemes(Tail(cs))

\* The positions of sourceCode the whitespace policy skipped in some call.
SkippedPositions ==
  UNION {(Len(sourceCode) - Len(calls[i].before.m_SourceCode) + 1) ..
         (Len(sourceCode) - Len(calls[i].stripped.m_SourceCode)) : i \in 1 .. Len(calls)}

\* The bytes of s from position k on, those at the positions in skipped left out.
RECURSIVE WithoutPositions(_, _, _)
WithoutPositions(s, skipped, k) ==
  IF k > Len(s) THEN <<>>
  ELSE (IF k \in skipped THEN <<>> ELSE <<s[k]>>) \o WithoutPositions(s, skipped, k + 1)

\* Every call so far was a successful getNextToken and the input is exhausted.
TokenizedToExhaustion ==
  /\ calls # <<>>
  /\ m_SourceCode = <<>>
  /\ \A i \in 1 .. Len(calls) :
       calls[i].op = "getNextToken" /\ calls[i].res.foundToken

\* C26: for an input tokenized by repeated successful next calls until it is
\* exhausted, the returned lexemes concatenated in call order are the
\* original input with the whitespace skipped by the policy removed: every
\* skipped byte is whitespace and no other byte is dropped, duplicated or
\* reordered.
C26_LexemesRoundTrip ==
  TokenizedToExhaustion =>
    /\ \A k \in SkippedPositions : IsSpace(sourceCode[k])
    /\ Lexemes(calls) = WithoutPositions(sourceCode, SkippedPositions, 1)

\* Two tokens with whitespace skipped between them.
C26_Witness ==
  /\ TokenizedToExhaustion
  /\ Len(calls) = 2
  /\ SkippedPositions # {}
  /\ \A i \in 1 .. 2 : calls[i].res.token.lexeme # <<>>


\* The leading whitespace of a call: what its stripping removed.
SkippedBy(call) ==
  SubSeq(call.before.m_SourceCode, 1,
         Len(call.before.m_SourceCode) - Len(call.stripped.m_SourceCode))

\* The number of '\n' bytes of s.
NewLinesOf(s) == Cardinality({k \in 1 .. Len(s) : s[k] = "\n"})

\* C27: under the default whitespace policy, stripping removes every leading
\* whitespace character, advances the line counter by one for each '\n'
\* removed and the column counter by one for each other whitespace character
\* removed.
C27_DefaultPolicyCountsLines ==
  \A i \in 1 .. Len(calls) :
    calls[i].flags = LAF_DEFAULT =>
      /\ WhitespaceStripped(calls[i].before.m_SourceCode, calls[i].stripped.m_SourceCode)
      /\ calls[i].stripped.m_SourceCode # <<>> => ~IsSpace(Head(calls[i].stripped.m_SourceCode))
      /\ calls[i].stripped.m_Line = calls[i].before.m_Line + NewLinesOf(SkippedBy(calls[i]))
      /\ calls[i].stripped.m_Col =
           calls[i].before.m_Col + Len(SkippedBy(calls[i])) - NewLinesOf(SkippedBy(calls[i]))


\* The main loop is at a reduce entry; the step made from here is the reduce.
AtReduce ==
  pc = "loop" /\ ~IsError(CurrEntry) /\ CurrEntry.type = "TET_ACTION_REDUCE"

\* The production of the reduce entry, the number of grammar symbols of its
\* body and the stack below the states of the body.
ReducedProduction == p_Vector[CurrEntry.number + 1]
ReducedSymbols == ProdSize(ReducedProduction)
BelowBody == SubSeq(m_Stack, 1, Len(m_Stack) - ReducedSymbols)

\* C28: on a reduce by production P the LR driver pops exactly as many
\* states as there are grammar-symbol elements in the body of P and then
\* pushes exactly one state, whose id is the target of
\* goto[state now on top, head(P)].
C28_ReducePopsBodyPushesGoto ==
  [][AtReduce =>
       IF Len(m_Stack) <= ReducedSymbols
       THEN FALSE
       ELSE LET entry == AtGoto(tbl, BelowBody[Len(BelowBody)], ReducedProduction.prodHead)
            IN /\ entry.type = "TET_GOTO"
               /\ m_Stack' = Append(BelowBody, entry.number)
               /\ m_CurrTopState' = entry.number]_vars

\* C28, amended: a reduce by P that finds more states on the stack than the
\* body of P has grammar symbols, and a goto entry for the state below them
\* and head(P), pops one state per grammar symbol and pushes the target of
\* that entry.  A reduce that finds too few states throws and leaves the
\* stack as it was; one that finds no goto entry throws after it has popped
\* the states, and pushes nothing.
C28_CompletedReducePopsBodyPushesGoto ==
  [][AtReduce =>
       IF Len(m_Stack) <= ReducedSymbols
       THEN pc' = "stack_underflow" /\ m_Stack' = m_Stack
       ELSE LET entry == AtGoto(tbl, BelowBody[Len(BelowBody)], ReducedProduction.prodHead)
            IN IF entry.type = "TET_GOTO"
               THEN /\ pc' = "loop"
                    /\ m_Stack' = Append(BelowBody, entry.number)
                    /\ m_CurrTopState' = entry.number
               ELSE /\ pc' = "bad_goto"
                    /\ m_Stack' = BelowBody]_vars

\* The reduce by E -> E + T of `id + id` has popped three states from
\* 0 1 6 9 and pushed goto[0][E].
C28_Witness ==
  /\ tbl = "expr" /\ pc = "loop"
  /\ reductions # <<>> /\ reductions[Len(reductions)] = 1
  /\ m_Stack = <<0, 1>>
  /\ input = <<T_ID, T_PLUS, T_ID>>


\* The state `to` is the shift target or the goto target of `from` on some
\* grammar symbol.
IsTransition(from, to) ==
  \/ \E terminal \in 0 .. (T_COUNT - 1) : AtAction(tbl, from, terminal) = TE_SHIFT(to)
  \/ \E variable \in NonTerminals : AtGoto(tbl, from, variable) = TE_GOTO(to)

\* The stack is a path of the parsing automaton from the start state.
IsAutomatonPath(stack) ==
  /\ stack # <<>>
  /\ stack[1] = START_STATE
  /\ \A i \in 2 .. Len(stack) : IsTransition(stack[i - 1], stack[i])

\* C29: after every shift, reduce and successful recovery step of an LR
\* parse (the steps that leave the parse in its main loop) the stack is a
\* path of the parsing automaton: the bottom state is 0 and every state
\* above it is the shift or goto target of the state directly below it, so
\* the state on top is the one the automaton reaches on everything below.
C29_StackIsAutomatonPath == pc = "loop" => IsAutomatonPath(m_Stack)

\* A stack of four states built by shifts, reduces and a recovery.
C29_Witness ==
  /\ pc = "loop" /\ recovered > 0 /\ reductions # <<>>
  /\ Len(m_Stack) >= 4
  /\ IsAutomatonPath(m_Stack)


\* The main loop is at an error entry and parse runs the panic-mode recovery.
AtRecovery ==
  /\ pc = "loop" /\ IsError(CurrEntry)
  /\ errorNum # ERR_RECOVERY_LIMIT /\ ert = "ERT_PANIC_MODE"

\* The positions of the stack whose state has a goto, and the topmost one:
\* the state the recovery exposes.
WithGotos == {k \in 1 .. Len(m_Stack) : GetGotos(tbl, m_Stack[k]) # {}}
ExposedIndex == CHOOSE k \in WithGotos : \A l \in WithGotos : l <= k

\* The recovery exposes a state: it finds one with a goto, and the goto table
\* has a row for every state it looks at on its way down.
ExposesState ==
  /\ WithGotos # {}
  /\ \A i \in ExposedIndex .. Len(m_Stack) : m_Stack[i] < gotoRows

\* The token j tokens after the current one.
TokenAhead(j) ==
  IF j = 0 THEN m_CurrInputToken
  ELSE IF pos + j <= Len(input) THEN input[pos + j] ELSE T_EOF

\* The offsets of the tokens the scan can synchronize on: tokens up to the
\* first T_EOF that are in FOLLOW of a recorded non-terminal.
SyncOffsets ==
  {j \in 0 .. (Len(input) - pos + 1) :
     /\ \A i \in 0 .. (j - 1) : TokenAhead(i) # T_EOF
     /\ \E N \in GetGotos(tbl, m_Stack[ExposedIndex]) : TokenAhead(j) \in FOLLOW[N]}

\* C30: when panic-mode recovery, having exposed a state S with recorded
\* non-terminals, meets a token t in FOLLOW(N) for a recorded non-terminal
\* N, it pushes exactly one state, goto[S, N], on S, leaves t as the current
\* unconsumed token and returns to the main loop; only the tokens before t
\* are discarded.
C30_RecoveryPushesGotoAndKeepsToken ==
  [][(AtRecovery /\ ExposesState /\ SyncOffsets # {}) =>
       LET S == m_Stack[ExposedIndex]
           j == CHOOSE o \in SyncOffsets : \A q \in SyncOffsets : o <= q
           t == TokenAhead(j)
       IN /\ \E N \in GetGotos(tbl, S) :
               /\ t \in FOLLOW[N]
               /\ m_Stack' = Append(SubSeq(m_Stack, 1, ExposedIndex), AtGoto(tbl, S, N).number)
               /\ m_CurrTopState' = AtGoto(tbl, S, N).number
          /\ m_CurrInputToken' = t
          /\ pos' = IF pos + j <= Len(input) THEN pos + j ELSE Len(input)
          /\ pc' = "loop"]_vars

\* On `id id +` the recovery popped state 5, discarded the second id and
\* synchronized on + with goto[0][E].
C30_Witness ==
  /\ tbl = "expr" /\ pc = "loop" /\ recovered = 1 /\ reductions = <<>>
  /\ input = <<T_ID, T_ID, T_PLUS>>
  /\ m_Stack = <<0, 1>>
  /\ m_CurrInputToken = T_PLUS /\ pos = 3


\* The LL main loop is at a terminal that the current token does not match,
\* in a parse with panic-mode recovery.
AtTerminalError ==
  /\ pc = "loop" /\ m_Stack # <<>>
  /\ LLTop.type = "PET_GRAM_SYMBOL" /\ IsTerminal(LLTop.gramSymbol)
  /\ LLTop.gramSymbol # EPSILON /\ LLTop.gramSymbol # m_CurrInputToken
  /\ ert = "ERT_PANIC_MODE"

\* C31: on an LL error where the expected stack-top symbol T is a terminal,
\* panic-mode recovery removes exactly T from the stack, removes no other
\* stack element, and parsing resumes.
C31_TerminalErrorPopsOnlyTerminal ==
  [][AtTerminalError => (m_Stack' = PopBack(m_Stack) /\ pc' = "loop")]_vars


\* The LL main loop is at a non-terminal whose entry for the current token
\* is an error, in a parse with panic-mode recovery.
AtVariableError ==
  /\ pc = "loop" /\ m_Stack # <<>>
  /\ LLTop.type = "PET_GRAM_SYMBOL" /\ ~IsTerminal(LLTop.gramSymbol)
  /\ LLEntry.isError
  /\ ert = "ERT_PANIC_MODE"

\* The non-terminal A can synchronize: it has an epsilon entry, or an entry
\* for one of the tokens that follow the current one, T_EOF included.
RECURSIVE CanSynchronize(_, _)
CanSynchronize(A, p) ==
  \/ ~LLTableAt(tbl, A, EPSILON).isError
  \/ ~LLTableAt(tbl, A, GetNextToken(input, p).name).isError
  \/ (p < Len(input) /\ CanSynchronize(A, p + 1))

\* A stack element the recovery can synchronize with at the end of the
\* input: a non-terminal with an epsilon entry or an entry for T_EOF.
SynchronizesAtEnd(symbol) ==
  /\ symbol.type = "PET_GRAM_SYMBOL" /\ ~IsTerminal(symbol.gramSymbol)
  /\ \/ ~LLTableAt(tbl, symbol.gramSymbol, EPSILON).isError
     \/ ~LLTableAt(tbl, symbol.gramSymbol, T_EOF).isError

\* C32: on an LL error at a non-terminal A, if EOF is reached without
\* synchronizing, panic-mode recovery pops A and retries with the symbols
\* then on top of the stack, one after the other: it resumes with the stack
\* cut down to the first symbol that synchronizes at the end of the input,
\* and if the stack empties without synchronizing the parse fails.
C32_UnsynchronizedVariablePopsAndRetries ==
  [][(AtVariableError /\ ~CanSynchronize(LLTop.gramSymbol, pos)) =>
       LET below == PopBack(m_Stack)
           syncing == {k \in 1 .. Len(below) : SynchronizesAtEnd(below[k])}
           kept == (CHOOSE k \in syncing : \A l \in syncing : l <= k) - 1
       IN IF syncing = {}
          THEN pc' \notin {"loop", "returned", "accepted"}
          ELSE /\ pc' = "loop"
               /\ Len(m_Stack') >= kept
               /\ SubSeq(m_Stack', 1, kept) = SubSeq(below, 1, kept)]_vars


\* C38: LL panic-mode recovery never pops from an empty stack: when the
\* symbol that caused the error was popped by the main loop, every pop of
\* the recovery finds an element on the stack, also when that symbol was the
\* last element; no step of the recovery has undefined behaviour.
C38_RecoveryNeverPopsEmptyStack ==
  [][(AtTerminalError \/ AtVariableError) => pc' \notin UndefinedOutcomes]_vars


\* C39: whenever the LR driver uses its current-top handle for an action or
\* goto lookup (at every iteration of the main loop), the handle is the
\* state on top of the stack, also after panic-mode recovery has popped
\* states and returned.
C39_HandleIsStackTop == pc = "loop" => m_CurrTopState = m_Stack[Len(m_Stack)]


\* C40: the cached CLOSURE corresponds to the current items of the item
\* set: a CLOSURE call returns a set that holds every item the set held when
\* it was called, and a GOTO call returns a set that holds the advanced item
\* of every item the set held with the dot before the symbol, also when
\* insert or merge changed the set after its CLOSURE was computed.
C40_CachedClosureIsCurrent ==
  /\ (itemOp.name = "CLOSURE" /\ itemStatus = "ok")
     => ItemsOf(itemOp.before) \subseteq ItemsOf(returned.m_Set)
  /\ (itemOp.name = "GOTO" /\ itemStatus = "ok")
     => Advanced(ItemsOf(itemOp.before), itemOp.arg) \subseteq ItemsOf(returned.m_Set)


\* The grammar symbols among the first n elements of a body.
SymbolsBefore(prodBody, n) ==
  Len(SelectSeq(SubSeq(prodBody, 1, n), LAMBDA e : e.type = "PET_GRAM_SYMBOL"))

\* An item was constructed, directly or as the kernel item of GOTO.
ItemConstructed == itemOp.name \in {"Item", "GOTO"} /\ itemStatus = "ok"

\* C33: for every item constructed directly or by GOTO the dot is between 0
\* and the number of grammar symbols of the body, exactly dot grammar
\* symbols precede the actual dot position, and the dot is reported at the
\* end exactly when dot is the number of grammar symbols, also for bodies
\* that hold elements that are not grammar symbols.
C33_DotIsConsistent ==
  ItemConstructed =>
    /\ returned.dotPos \in 0 .. ProdSize(returned.production)
    /\ SymbolsBefore(returned.production.prodBody, getActualDotPosition(returned))
         = returned.dotPos
    /\ isDotPositionAtEnd(returned) <=> returned.dotPos = ProdSize(returned.production)


\* The states reachable from a set by at most n epsilon moves.
RECURSIVE EpsilonReachableWithin(_, _, _)
EpsilonReachableWithin(m, set, n) ==
  IF n = 0 THEN set
  ELSE LET before == EpsilonReachableWithin(m, set, n - 1)
       IN before \cup { q \in DOMAIN m.epsilon : \E r \in before : q \in m.epsilon[r] }

\* The states reachable from a set by zero or more epsilon moves.
EpsilonReachable(m, set) ==
  EpsilonReachableWithin(m, set, Cardinality(DOMAIN m.epsilon))

\* C34: for every epsilon-NFA transition table, tables with epsilon cycles
\* included, the epsilon closure of a set of states terminates and returns
\* exactly the states reachable from the set by zero or more epsilon moves.
C34_EpsilonClosureTerminatesWithReachable ==
  (closurePc = "idle")
    ~> (closurePc = "returned" /\ closureRes = EpsilonReachable(machine, closureOf))

\* The closure of the start state was returned for the cycle 1 -> 2 -> 3 -> 1.
C34_Witness ==
  /\ closurePc = "returned" /\ closureOf = {FSM_START_STATE}
  /\ machine.epsilon[FSM_START_STATE] = {FSM_START_STATE + 1}
  /\ machine.epsilon[FSM_START_STATE + 1] = {FSM_START_STATE + 2}
  /\ machine.epsilon[FSM_START_STATE + 2] = {FSM_START_STATE}
  /\ closureRes = ClosureStates


\* C35: an epsilon-NFA accepts an input in whole-string mode exactly when
\* some path of byte transitions and epsilon moves from the start state
\* ends in a final state, paths whose first step is an epsilon move out of
\* the start state and the empty input included.
C35_WholeStringAcceptsExactlyPaths ==
  (/\ fsmResult.done /\ machine.type = "MT_EPSILON_NFA"
   /\ fsmResult.mode = "MM_WHOLE_STRING")
  => (fsmResult.accepted <=> AcceptsPrefix(machine, fsmInput, Len(fsmInput)))


\* C36: on every successful next or peek the state handed to the token
\* factory is a final state of the automaton and is the state the machine is
\* in at the end of the returned lexeme: not the dead state, not the state of
\* an empty set, not a state reached beyond the accepted prefix.
C36_FactoryStateIsFinalStateOfLexeme ==
  \A i \in 1 .. Len(calls) :
    calls[i].res.foundToken =>
      /\ calls[i].res.token.state \in machine.finalStates
      /\ ConfigurationAfter(machine, calls[i].res.token.lexeme)
           = {calls[i].res.token.state}


\* C37: a not-found result of the lexical analyzer while unconsumed input
\* remains is not taken for the end of the input by either driver: no parse
\* accepts (the LR driver) or returns from its main loop with an empty stack
\* (the LL driver) while a part of the source was not consumed.
C37_NoAcceptWithUnconsumedInput ==
  pc \in {"accepted", "returned"} => pos = Len(input)

=============================================================================
